---- MODULE Spec2Model ----
(***************************************************************************)
(* Verification model of MeetingServer: the bounded MPMC ring queue, the   *)
(* task objects, the worker pool with its blocking queue adapter, the      *)
(* meeting manager over the in-memory meeting repository, the cached       *)
(* repositories in front of the primary ones, the in-memory user           *)
(* repository, the meeting service's token check, the MySQL connection     *)
(* pool and the server registry.                                           *)
(*                                                                         *)
(* Each subsystem has its own specification over the shared variable list; *)
(* a specification keeps the variables of the other subsystems at their    *)
(* constructed values.                                                     *)
(*   SpecQueue    BoundedCircularQueue, cell by cell                       *)
(*   SpecTask     TaskBase::Execute and Cancel on one task object          *)
(*   SpecMeeting  MeetingManager calls from concurrent request threads     *)
(*   SpecPool     ThreadPool submitters, a worker and the controller       *)
(*   FairSpecPool SpecPool with weakly fair threads                        *)
(*   SpecShutDown ThreadPool::ShutDown with its three options              *)
(*   SpecOverwrite      a running pool whose queue-full policy is Overwrite*)
(*   FairSpecOverwrite  SpecOverwrite with weakly fair threads             *)
(*   SpecCache    callers of the Redis-cached meeting and user repositories*)
(*   SpecSession  callers of the Redis-cached session repository           *)
(*   SpecUser     concurrent CreateUser on the in-memory user repository   *)
(*   SpecService  meeting RPCs resolving their session token               *)
(*   SpecConnPool client threads of the MySQL ConnectionPool               *)
(*   SpecRegistry ServerRegistry calls against a ZooKeeper ensemble        *)
(*   SpecAdapter  threads calling a BlockingQueueAdapter directly          *)
(*   SpecWait     SpecAdapter with the push and pop calls only             *)
(*   FairSpecWait SpecWait with weakly fair threads                        *)
(*   SpecBalancer the pool's load controller and its worker slots          *)
(*   FairSpecBalancer   SpecBalancer with fair controller and workers      *)
(***************************************************************************)
EXTENDS Integers, Naturals, Sequences, FiniteSets, TLC

(***************************************************************************)
(* Bounds of the model.                                                    *)
(***************************************************************************)
\* capacity requested from the BoundedCircularQueue constructor
QueueCap == 2
\* number of push calls made on the ring queue in SpecQueue
MaxPushes == 3
\* number of Execute / Cancel calls made on the task in SpecTask
MaxTaskCalls == 3
\* user ids 1..MaxUsers take part in meetings
MaxUsers == 3
\* largest max_participants a MeetingConfig of the model sets
MaxRoster == 2
\* last second the clock of SpecMeeting reaches
MaxTime == 2
\* calls the callers of SpecMeeting make in all
MaxCalls == 3
\* tasks handed to the pool of SpecPool in all
MaxTasks == 3
\* largest batch a PostBatch call of SpecPool carries
MaxBatch == 2

NoElem == 0

(***************************************************************************)
(* State.                                                                  *)
(***************************************************************************)
VARIABLES
    \* ---- BoundedCircularQueue (bounded_circular_queue.hpp) ----
    producer_pos_,   \* std::atomic<size_type> producer_pos_
    consumer_pos_,   \* std::atomic<size_type> consumer_pos_
    cell_seq,        \* buffer_[i].seq_
    cell_storage,    \* buffer_[i].storage_ : the element constructed there, or NoElem
    qpc,             \* per queue thread: position inside DoPush / TryPop
    qpos,            \* per queue thread: local variable pos
    qitem,           \* per queue thread: element being pushed / moved out
    qthrows,         \* per queue thread: whether the producer functor f throws
    pushStarted,     \* number of push calls made so far (names the elements)
    pushedOk,        \* elements whose push returned true
    pushFailed,      \* number of pushes whose construction threw
    popped,          \* elements returned by successful pops, in order of return
    \* ---- one task object (fwd.hpp: SimpleTask / FutureTask) ----
    task_kind,       \* "Simple" (SimpleTask, used by Post) or "Future" (FutureTask)
    done_,           \* std::atomic<bool> done_
    ok_,             \* std::atomic<bool> ok_
    promise_,        \* FutureTask::promise_: "unset", "value" or "exception"
    tpc,             \* per caller: position inside Execute / Cancel
    tcalls,          \* number of Execute / Cancel calls made so far
    f_runs,          \* number of invocations of the closure f_
    cancel_effects,  \* number of Cancel calls that took effect
    \* ---- MeetingManager over InMemoryMeetingRepository ----
    config_,         \* MeetingManager::config_ (MeetingConfig)
    meetings_,       \* InMemoryMeetingRepository::meetings_ : meeting_id -> MeetingData
    now,             \* the clock CurrentUnixSeconds() reads
    mpc,             \* per caller: position inside the manager call it is making
    mcmd,            \* per caller: the command of that call
    mlocal,          \* per caller: the fields of its copy of the meeting (the value
                     \* GetMeeting returned) that the rest of the call reads
    mresult,         \* status code of the call that returned last
    mcalls,          \* number of calls made so far
    \* ---- ThreadPool over BlockingQueueAdapter<TaskPtr> ----
    state_,          \* std::atomic<PoolState> state_
    policy_,         \* std::atomic<QueueFullPolicy> policy_
    queue_,          \* the tasks in the adapter's ring, oldest first
    pending_count_,  \* BlockingQueueAdapter::pending_count_ (size_t: below zero
                     \* stands for the wrapped value, which is neither 0 nor Capacity())
    close_,          \* BlockingQueueAdapter::close_
    push_mutex_,     \* BlockingQueueAdapter::push_mutex_ : its owner, or ""
    pop_mutex_,      \* BlockingQueueAdapter::pop_mutex_ : its owner, or ""
    overwrite_mutex_, \* BlockingQueueAdapter::overwrite_mutex_ : its owner, or ""
    overwrite_cnt_,  \* std::atomic<size_t> overwrite_cnt_
    submit_ing_,     \* std::atomic<size_t> submit_ing_
    active_tasks_,   \* std::atomic<size_t> active_tasks_
    total_submitted_, total_completed_, total_failed_, total_cancelled_, total_rejected_,
    spc,             \* per submitter: position inside Submit / Post / PostBatch
    skind,           \* per submitter: "Submit", "Post" or "PostBatch"
    stasks,          \* per submitter: the tasks of its call, in order
    spushed,         \* per submitter: how many of them it has put in the ring
    swaited,         \* per submitter: its call has returned from pause_cv_.wait
                     \* (Submit keeps this in waited_in_pause, Post keeps nothing)
    sres,            \* per submitter: what the adapter's push returned
    soverwritten,    \* per submitter: local variable overwritten of Submit (0: null)
    wpc,             \* per worker: position inside WorkerLoop / WaitPop
    wtask,           \* per worker: local variable task (0: none)
    cpc,             \* the controlling thread: position inside Stop
    cmode,           \* StopMode of its Stop call
    copt,            \* ShutDownOption of its ShutDown call ("" inside a plain Stop)
    expired,         \* ShutDown(Timeout): steady_clock::now() reached deadline
                     \* while state_ was not yet STOPPED
    tstatus,         \* per task: where it is and how it ended
    taccepted,       \* per task: its submission call returned success
    ntasks,          \* number of tasks created so far
    \* ---- cached repositories (CachedMeetingRepository, CachedUserRepository)
    db_meeting,      \* the primary repository's record of the meeting, NoRecord if none
    redis_meeting,   \* payload under the key meeting:info:<id>, NoRecord if absent
    db_user,         \* the primary repository's record of the user
    redis_user_id,   \* payload under the key meeting:user:id:<id>
    redis_user_name, \* payload under the key meeting:user:name:<name>
    rpc,             \* per caller: position inside its repository call
    rop,             \* per caller: the call it makes and its arguments
    rval,            \* per caller: the value its call holds in a local
    rres,            \* per caller: what its last call returned
    rwrote,          \* per caller: its last successful write that no read of its own followed
    rcalls,          \* repository calls made so far
    \* ---- cached session repository (CachedSessionRepository), one token
    snow,            \* the system clock, in seconds
    db_session,      \* the primary repository's record of the token, NoRecord if none
    redis_session,   \* payload under the key meeting:session:<token>, NoRecord if absent
    slife,           \* history: "none", "creating" once CreateSession is called,
                     \* "created" once it has returned, "deleted" once a
                     \* DeleteSession has returned OK
    \* ---- in-memory user repository (InMemoryUserRepository)
    users_by_user_name_, \* user_name -> stored UserData, NoRecord if none
    users_by_id_,        \* user_id -> stored UserData, NoRecord if none
    next_numeric_id_,    \* the numeric id the next stored user gets
    ureg,                \* history: the CreateUser calls that have returned
    \* ---- meeting service (MeetingServiceImpl) in front of the meeting manager
    mysql_enabled,       \* GlobalConfig().storage.mysql.enabled
    svc_sessions,        \* token -> user_id of its valid session, 0 if none
    svc_last,            \* history: the last RPC's token, resolved user and status
    \* ---- MySQL connection pool (ConnectionPool)
    connections_,        \* the queue of idle connections
    total_connections_,  \* the pool's counter of connections
    kpc,                 \* per client thread: position inside Acquire or Return
    kconn,               \* per client thread: the connection it holds, 0 if none
    knext,               \* the identity the next connection created gets
    \* ---- server registry (ServerRegistry) and the ZooKeeper ensemble
    enabled_,            \* whether the registry is in use
    zk_,                 \* whether the registry holds a ZooKeeper handle
    nodes_,              \* the in-memory list of registered nodes
    zk_tree,             \* the node paths under /meeting/servers in ZooKeeper
    zk_up,               \* whether the ZooKeeper ensemble answers
    gop,                 \* history: the last registry call and what it returned
    gregd,               \* history: nodes registered and not unregistered since
    \* ---- threads using a BlockingQueueAdapter directly
    apc,                 \* per thread: position inside its adapter call
    aop,                 \* per thread: the adapter call it is making
    aitem,               \* per thread: the item it pushes, or the local out
    aover,               \* per thread: tmp of OverwritePush, the element displaced
    ares,                \* per thread: what its last call returned
    apushes,             \* push calls made so far (names the items)
    acalls,              \* adapter calls made so far
    \* ---- the ThreadPool's load controller and its worker slots
    current_threads_,    \* std::atomic<size_t> current_threads_
    active_threads_,     \* std::atomic<size_t> active_threads_
    workers_,            \* the slots of workers_, in order
    should_exit,         \* per slot: WorkerSlot::should_exit
    idle,                \* per slot: WorkerSlot::idle
    lpc,                 \* per slot: position of its thread inside WorkerLoop
    ltask,               \* per slot: local variable task (0: none)
    bpc,                 \* the controller's thread: position inside LoadBalancerLoop
    up_hits,             \* local variable up_hits of LoadBalancerLoop
    down_hits,           \* local variable down_hits of LoadBalancerLoop
    target_workers,      \* the slot ScheduleShrinkUnlocked picked, 0 if none
    lsamples,            \* history: the triggers of the last samples
    lacted,              \* history: the adjustment the last sample decided on
    lloaded,             \* user tasks handed over so far
    lexit_cancelled      \* history: ExitTasks cancelled by a submission

qvars == <<producer_pos_, consumer_pos_, cell_seq, cell_storage, qpc, qpos, qitem,
           qthrows, pushStarted, pushedOk, pushFailed, popped>>

tvars == <<task_kind, done_, ok_, promise_, tpc, tcalls, f_runs, cancel_effects>>

mvars == <<config_, meetings_, now, mpc, mcmd, mlocal, mresult, mcalls>>

pvars == <<state_, policy_, queue_, pending_count_, close_, push_mutex_, pop_mutex_,
           overwrite_mutex_, overwrite_cnt_, soverwritten,
           submit_ing_, active_tasks_, total_submitted_, total_completed_,
           total_failed_, total_cancelled_, total_rejected_, spc, skind, stasks,
           spushed, swaited, sres, wpc, wtask, cpc, cmode, copt, expired, tstatus,
           taccepted, ntasks>>

cvars == <<db_meeting, redis_meeting, db_user, redis_user_id, redis_user_name,
           rpc, rop, rval, rres, rwrote, rcalls>>

svars == <<snow, db_session, redis_session, slife>>

\* the subsystems added after the cached repositories
uvars == <<users_by_user_name_, users_by_id_, next_numeric_id_, ureg>>

vvars == <<mysql_enabled, svc_sessions, svc_last>>

kvars == <<connections_, total_connections_, kpc, kconn, knext>>

gvars == <<enabled_, zk_, nodes_, zk_tree, zk_up, gop, gregd>>

avars == <<apc, aop, aitem, aover, ares, apushes, acalls>>

lvars == <<current_threads_, active_threads_, workers_, should_exit, idle, lpc, ltask,
           bpc, up_hits, down_hits, target_workers, lsamples, lacted, lloaded,
           lexit_cancelled>>

evars == <<svars, uvars, vvars, kvars, gvars, avars, lvars>>

vars == <<qvars, tvars, mvars, pvars, cvars, evars>>

\* what the ring queue's steps leave alone
nonq == <<tvars, mvars, pvars, cvars, evars>>
\* what the task's steps leave alone
nont == <<qvars, mvars, pvars, cvars, evars>>
\* what the meeting manager's steps leave alone
nonm == <<qvars, tvars, pvars, cvars, evars>>
\* what the pool's steps leave alone
nonp == <<qvars, tvars, mvars, cvars, evars>>
\* what the cached repositories' steps leave alone
nonc == <<qvars, tvars, mvars, pvars, evars>>
\* what the cached session repository's steps leave alone
nons == <<qvars, tvars, mvars, pvars, db_meeting, redis_meeting, db_user,
          redis_user_id, redis_user_name, rwrote, uvars, vvars, kvars, gvars, avars,
          lvars>>
\* what the meeting service's own steps leave alone, the manager's variables aside
nonv == <<qvars, tvars, pvars, cvars, svars, uvars, kvars, gvars, avars, lvars>>
\* what the connection pool's steps leave alone
nonk == <<qvars, tvars, mvars, pvars, cvars, svars, uvars, vvars, gvars, avars, lvars>>
\* what the server registry's steps leave alone
nong == <<qvars, tvars, mvars, pvars, cvars, svars, uvars, vvars, kvars, avars, lvars>>
\* what the in-memory user repository's steps leave alone
nonu == <<qvars, tvars, mvars, pvars, db_meeting, redis_meeting, db_user,
          redis_user_id, redis_user_name, rwrote, svars, vvars, kvars, gvars, avars,
          lvars>>

(***************************************************************************)
(* BoundedCircularQueue                                                    *)
(***************************************************************************)
QProducers == {"p1", "p2"}
QConsumers == {"c1", "c2"}
QThreads == QProducers \cup QConsumers

RECURSIVE Pow2AtLeast(_, _)
Pow2AtLeast(n, p) == IF p >= n THEN p ELSE Pow2AtLeast(n, 2 * p)

\* RoundUpToPow2: 2 for n < 2, else the least power of two >= n
RoundUpToPow2(n) == IF n < 2 THEN 2 ELSE Pow2AtLeast(n, 2)

capacity_ == RoundUpToPow2(QueueCap)

\* buffer_[pos & mask_] with mask_ = capacity_ - 1 and capacity_ a power of two
CellOf(pos) == pos % capacity_

QInit ==
    /\ producer_pos_ = 0
    /\ consumer_pos_ = 0
    /\ cell_seq = [i \in 0..(capacity_ - 1) |-> i]
    /\ cell_storage = [i \in 0..(capacity_ - 1) |-> NoElem]
    /\ qpc = [t \in QThreads |-> "idle"]
    /\ qpos = [t \in QThreads |-> 0]
    /\ qitem = [t \in QThreads |-> NoElem]
    /\ qthrows = [t \in QThreads |-> FALSE]
    /\ pushStarted = 0
    /\ pushedOk = {}
    /\ pushFailed = 0
    /\ popped = <<>>

QHist == <<pushStarted, pushedOk, pushFailed, popped>>

\* DoPush entry: pos = producer_pos_.load(). The functor either constructs the
\* element or throws.
PushCall(t) ==
    /\ t \in QProducers
    /\ qpc[t] = "idle"
    /\ pushStarted < MaxPushes
    /\ pushStarted' = pushStarted + 1
    /\ \E th \in BOOLEAN : qthrows' = [qthrows EXCEPT ![t] = th]
    /\ qitem' = [qitem EXCEPT ![t] = pushStarted + 1]
    /\ qpos' = [qpos EXCEPT ![t] = producer_pos_]
    /\ qpc' = [qpc EXCEPT ![t] = "p_seq"]
    /\ UNCHANGED <<producer_pos_, consumer_pos_, cell_seq, cell_storage,
                   pushedOk, pushFailed, popped>>
    /\ UNCHANGED nonq

\* seq = cell.seq_.load(); diff = seq - pos
PushLoadSeq(t) ==
    /\ qpc[t] = "p_seq"
    /\ LET diff == cell_seq[CellOf(qpos[t])] - qpos[t] IN
         /\ qpc' = [qpc EXCEPT ![t] = IF diff = 0 THEN "p_cas"
                                      ELSE IF diff < 0 THEN "idle"  \* full: return false
                                      ELSE "p_reload"]
         /\ qitem' = [qitem EXCEPT ![t] = IF diff < 0 THEN NoElem ELSE @]
    /\ UNCHANGED <<producer_pos_, consumer_pos_, cell_seq, cell_storage, qpos,
                   qthrows, QHist>>
    /\ UNCHANGED nonq

\* pos = producer_pos_.load() after seeing a cell another producer claimed
PushReload(t) ==
    /\ qpc[t] = "p_reload"
    /\ qpos' = [qpos EXCEPT ![t] = producer_pos_]
    /\ qpc' = [qpc EXCEPT ![t] = "p_seq"]
    /\ UNCHANGED <<producer_pos_, consumer_pos_, cell_seq, cell_storage, qitem,
                   qthrows, QHist>>
    /\ UNCHANGED nonq

\* producer_pos_.compare_exchange_weak(pos, pos + 1); on failure pos is reloaded
PushCas(t) ==
    /\ qpc[t] = "p_cas"
    /\ IF producer_pos_ = qpos[t]
       THEN /\ producer_pos_' = qpos[t] + 1
            /\ qpc' = [qpc EXCEPT ![t] = "p_construct"]
            /\ UNCHANGED qpos
       ELSE /\ qpos' = [qpos EXCEPT ![t] = producer_pos_]
            /\ qpc' = [qpc EXCEPT ![t] = "p_seq"]
            /\ UNCHANGED producer_pos_
    /\ UNCHANGED <<consumer_pos_, cell_seq, cell_storage, qitem, qthrows, QHist>>
    /\ UNCHANGED nonq

\* f(storage) threw: cell.seq_.store(pos) and rethrow; producer_pos_ stays pos + 1
PushRollback(t) ==
    /\ cell_seq' = [cell_seq EXCEPT ![CellOf(qpos[t])] = qpos[t]]
    /\ UNCHANGED <<producer_pos_, cell_storage>>

\* try { f(storage); } catch (...) { roll back; throw; }
PushConstruct(t) ==
    /\ qpc[t] = "p_construct"
    /\ IF qthrows[t]
       THEN /\ PushRollback(t)
            /\ pushFailed' = pushFailed + 1
            /\ qitem' = [qitem EXCEPT ![t] = NoElem]
            /\ qpc' = [qpc EXCEPT ![t] = "idle"]
       ELSE /\ cell_storage' = [cell_storage EXCEPT ![CellOf(qpos[t])] = qitem[t]]
            /\ qpc' = [qpc EXCEPT ![t] = "p_publish"]
            /\ UNCHANGED <<producer_pos_, cell_seq, pushFailed, qitem>>
    /\ UNCHANGED <<consumer_pos_, qpos, qthrows, pushStarted, pushedOk, popped>>
    /\ UNCHANGED nonq

\* cell.seq_.store(pos + 1); return true
PushPublish(t) ==
    /\ qpc[t] = "p_publish"
    /\ cell_seq' = [cell_seq EXCEPT ![CellOf(qpos[t])] = qpos[t] + 1]
    /\ pushedOk' = pushedOk \cup {qitem[t]}
    /\ qitem' = [qitem EXCEPT ![t] = NoElem]
    /\ qpc' = [qpc EXCEPT ![t] = "idle"]
    /\ UNCHANGED <<producer_pos_, consumer_pos_, cell_storage, qpos, qthrows,
                   pushStarted, pushFailed, popped>>
    /\ UNCHANGED nonq

\* TryPop entry: pos = consumer_pos_.load()
PopCall(t) ==
    /\ t \in QConsumers
    /\ qpc[t] = "idle"
    /\ qpos' = [qpos EXCEPT ![t] = consumer_pos_]
    /\ qpc' = [qpc EXCEPT ![t] = "c_seq"]
    /\ UNCHANGED <<producer_pos_, consumer_pos_, cell_seq, cell_storage, qitem,
                   qthrows, QHist>>
    /\ UNCHANGED nonq

\* seq = cell.seq_.load(); diff = seq - (pos + 1)
PopLoadSeq(t) ==
    /\ qpc[t] = "c_seq"
    /\ LET diff == cell_seq[CellOf(qpos[t])] - (qpos[t] + 1) IN
         qpc' = [qpc EXCEPT ![t] = IF diff = 0 THEN "c_cas"
                                   ELSE IF diff < 0 THEN "idle"   \* empty: return false
                                   ELSE "c_reload"]
    /\ UNCHANGED <<producer_pos_, consumer_pos_, cell_seq, cell_storage, qpos, qitem,
                   qthrows, QHist>>
    /\ UNCHANGED nonq

PopReload(t) ==
    /\ qpc[t] = "c_reload"
    /\ qpos' = [qpos EXCEPT ![t] = consumer_pos_]
    /\ qpc' = [qpc EXCEPT ![t] = "c_seq"]
    /\ UNCHANGED <<producer_pos_, consumer_pos_, cell_seq, cell_storage, qitem,
                   qthrows, QHist>>
    /\ UNCHANGED nonq

\* the claim of a consumable cell with the compare dropped (a plain store)
PopCasNoCompare(t) ==
    /\ qpc[t] = "c_cas"
    /\ consumer_pos_' = qpos[t] + 1
    /\ qpc' = [qpc EXCEPT ![t] = "c_move"]
    /\ UNCHANGED <<producer_pos_, cell_seq, cell_storage, qpos, qitem, qthrows, QHist>>
    /\ UNCHANGED nonq

\* consumer_pos_.compare_exchange_weak(pos, pos + 1)
PopCas(t) ==
    /\ qpc[t] = "c_cas"
    /\ IF consumer_pos_ = qpos[t]
       THEN /\ consumer_pos_' = qpos[t] + 1
            /\ qpc' = [qpc EXCEPT ![t] = "c_move"]
            /\ UNCHANGED qpos
       ELSE /\ qpos' = [qpos EXCEPT ![t] = consumer_pos_]
            /\ qpc' = [qpc EXCEPT ![t] = "c_seq"]
            /\ UNCHANGED consumer_pos_
    /\ UNCHANGED <<producer_pos_, cell_seq, cell_storage, qitem, qthrows, QHist>>
    /\ UNCHANGED nonq

\* out = std::move(*elem); elem->~T()
PopMove(t) ==
    /\ qpc[t] = "c_move"
    /\ qitem' = [qitem EXCEPT ![t] = cell_storage[CellOf(qpos[t])]]
    /\ cell_storage' = [cell_storage EXCEPT ![CellOf(qpos[t])] = NoElem]
    /\ qpc' = [qpc EXCEPT ![t] = "c_release"]
    /\ UNCHANGED <<producer_pos_, consumer_pos_, cell_seq, qpos, qthrows, QHist>>
    /\ UNCHANGED nonq

\* cell.seq_.store(pos + capacity_); return true
PopRelease(t) ==
    /\ qpc[t] = "c_release"
    /\ cell_seq' = [cell_seq EXCEPT ![CellOf(qpos[t])] = qpos[t] + capacity_]
    /\ popped' = Append(popped, qitem[t])
    /\ qitem' = [qitem EXCEPT ![t] = NoElem]
    /\ qpc' = [qpc EXCEPT ![t] = "idle"]
    /\ UNCHANGED <<producer_pos_, consumer_pos_, cell_storage, qpos, qthrows,
                   pushStarted, pushedOk, pushFailed>>
    /\ UNCHANGED nonq

\* ApproxSize(): producer_pos_ - consumer_pos_
ApproxSize == producer_pos_ - consumer_pos_

QNext ==
    \E t \in QThreads :
        \/ PushCall(t) \/ PushLoadSeq(t) \/ PushReload(t) \/ PushCas(t)
        \/ PushConstruct(t) \/ PushPublish(t)
        \/ PopCall(t) \/ PopLoadSeq(t) \/ PopReload(t) \/ PopCas(t)
        \/ PopMove(t) \/ PopRelease(t)

(***************************************************************************)
(* TaskBase: SimpleTask and FutureTask<void> (fwd.hpp)                     *)
(***************************************************************************)
TaskCallers == {"a", "b"}

\* the task object as constructed: not executed, not cancelled
TConstructed ==
    /\ done_ = FALSE
    /\ ok_ = FALSE
    /\ promise_ = "unset"
    /\ tpc = [c \in TaskCallers |-> "idle"]
    /\ tcalls = 0
    /\ f_runs = 0
    /\ cancel_effects = 0

TInit ==
    /\ task_kind \in {"Simple", "Future"}
    /\ TConstructed

\* Execute(): if (done_.load()) return;
ExecuteCall(c) ==
    /\ tpc[c] = "idle"
    /\ tcalls < MaxTaskCalls
    /\ tcalls' = tcalls + 1
    /\ tpc' = [tpc EXCEPT ![c] = IF done_ THEN "idle" ELSE "e_run"]
    /\ UNCHANGED <<task_kind, done_, ok_, promise_, f_runs, cancel_effects>>
    /\ UNCHANGED nont

\* try { f_(); ... } catch (...) { ... }: the closure runs and returns or throws
ExecuteRun(c) ==
    /\ tpc[c] = "e_run"
    /\ f_runs' = f_runs + 1
    /\ \E threw \in BOOLEAN : tpc' = [tpc EXCEPT ![c] = IF threw THEN "e_fail" ELSE "e_ok"]
    /\ UNCHANGED <<task_kind, done_, ok_, promise_, tcalls, cancel_effects>>
    /\ UNCHANGED nont

\* promise_.set_value(); ok_.store(true). On a promise that is already satisfied
\* set_value throws, the handler's set_exception throws too and is swallowed,
\* and ok_.store(false) runs. SimpleTask has no promise.
ExecuteSetOk(c) ==
    /\ tpc[c] = "e_ok"
    /\ IF task_kind = "Future" /\ promise_ # "unset"
       THEN /\ ok_' = FALSE
            /\ UNCHANGED promise_
       ELSE /\ ok_' = TRUE
            /\ promise_' = IF task_kind = "Future" THEN "value" ELSE promise_
    /\ tpc' = [tpc EXCEPT ![c] = "e_done"]
    /\ UNCHANGED <<task_kind, done_, tcalls, f_runs, cancel_effects>>
    /\ UNCHANGED nont

\* catch (...) { promise_.set_exception(current_exception()); ok_.store(false); }
ExecuteSetFailed(c) ==
    /\ tpc[c] = "e_fail"
    /\ ok_' = FALSE
    /\ promise_' = IF task_kind = "Future" /\ promise_ = "unset" THEN "exception"
                   ELSE promise_
    /\ tpc' = [tpc EXCEPT ![c] = "e_done"]
    /\ UNCHANGED <<task_kind, done_, tcalls, f_runs, cancel_effects>>
    /\ UNCHANGED nont

\* done_.store(true)
ExecuteSetDone(c) ==
    /\ tpc[c] = "e_done"
    /\ done_' = TRUE
    /\ tpc' = [tpc EXCEPT ![c] = "idle"]
    /\ UNCHANGED <<task_kind, ok_, promise_, tcalls, f_runs, cancel_effects>>
    /\ UNCHANGED nont

\* Cancel(): if (!done_.exchange(true)) { ... }
CancelCall(c) ==
    /\ tpc[c] = "idle"
    /\ tcalls < MaxTaskCalls
    /\ tcalls' = tcalls + 1
    /\ done_' = TRUE
    /\ IF done_
       THEN /\ tpc' = tpc
            /\ UNCHANGED cancel_effects
       ELSE /\ tpc' = [tpc EXCEPT ![c] = "c_effect"]
            /\ cancel_effects' = cancel_effects + 1
    /\ UNCHANGED <<task_kind, ok_, promise_, f_runs>>
    /\ UNCHANGED nont

\* promise_.set_exception(eptr) (swallowing its failure); ok_.store(false)
CancelEffect(c) ==
    /\ tpc[c] = "c_effect"
    /\ ok_' = FALSE
    /\ promise_' = IF task_kind = "Future" /\ promise_ = "unset" THEN "exception"
                   ELSE promise_
    /\ tpc' = [tpc EXCEPT ![c] = "idle"]
    /\ UNCHANGED <<task_kind, done_, tcalls, f_runs, cancel_effects>>
    /\ UNCHANGED nont

\* Success(): ok_.load()
Success == ok_

TNext ==
    \E c \in TaskCallers :
        \/ ExecuteCall(c) \/ ExecuteRun(c) \/ ExecuteSetOk(c) \/ ExecuteSetFailed(c)
        \/ ExecuteSetDone(c) \/ CancelCall(c) \/ CancelEffect(c)

\* the task of the other specifications: a SimpleTask nobody calls
TIdle == task_kind = "Simple" /\ TConstructed

(***************************************************************************)
(* MeetingManager (meeting_manager.cpp) over InMemoryMeetingRepository     *)
(* (meeting_repository.cpp). Every repository method runs under the        *)
(* repository mutex and is one step; a manager call is the sequence of the *)
(* repository calls it makes.                                              *)
(***************************************************************************)
MCallers == {"r1", "r2"}
MeetingIds == {"m1", "m2"}
MeetingCodes == {"k1", "k2"}
\* user ids of the commands; 0 is the id the manager rejects as empty
UserIds == 0..MaxUsers

\* MeetingData without topic and created_at, which no call reads after creation
NoMeeting == [present |-> FALSE, meeting_code |-> "", organizer_id |-> 0,
              state |-> "Scheduled", participants |-> <<>>, updated_at |-> 0]
NoLocal == [state |-> "Scheduled", organizer_id |-> 0]
LocalOf(meeting) == [state |-> meeting.state, organizer_id |-> meeting.organizer_id]
NoCmd == [op |-> "", meeting_id |-> "", user |-> 0]

\* the commands: CreateMeetingCommand carries the organizer; the Join, Leave and
\* End commands carry any meeting id (or the empty one) and any user id (or zero)
MCommands ==
    [op : {"create"}, meeting_id : {""}, user : UserIds]
        \cup [op : {"join", "leave", "end"}, meeting_id : MeetingIds \cup {""}, user : UserIds]

SeqContains(seq, x) == \E i \in 1..Len(seq) : seq[i] = x
\* participants.erase(std::find(...)): the first occurrence goes
SeqRemove(seq, x) ==
    LET i == CHOOSE k \in 1..Len(seq) : seq[k] = x /\ \A j \in 1..(k - 1) : seq[j] # x
    IN SubSeq(seq, 1, i - 1) \o SubSeq(seq, i + 1, Len(seq))

MCallersIdle ==
    /\ mpc = [c \in MCallers |-> "idle"]
    /\ mcmd = [c \in MCallers |-> NoCmd]
    /\ mlocal = [c \in MCallers |-> NoLocal]
    /\ mresult = "none"
    /\ mcalls = 0

MInit ==
    /\ config_ \in [max_participants : {MaxRoster},
                    end_when_empty : BOOLEAN,
                    end_when_organizer_leaves : BOOLEAN]
    /\ meetings_ = [m \in MeetingIds |-> NoMeeting]
    /\ now = 1
    /\ MCallersIdle

\* the manager of the other specifications: default MeetingConfig, nothing stored
MIdle ==
    /\ config_ = [max_participants |-> MaxRoster, end_when_empty |-> TRUE,
                  end_when_organizer_leaves |-> TRUE]
    /\ meetings_ = [m \in MeetingIds |-> NoMeeting]
    /\ now = 1
    /\ MCallersIdle

\* the call of caller c returns status code st
MReturn(c, st) ==
    /\ mpc' = [mpc EXCEPT ![c] = "idle"]
    /\ mcmd' = [mcmd EXCEPT ![c] = NoCmd]
    /\ mlocal' = [mlocal EXCEPT ![c] = NoLocal]
    /\ mresult' = st

\* the call of caller c goes on to its step pc
MGoto(c, pc) ==
    /\ mpc' = [mpc EXCEPT ![c] = pc]
    /\ UNCHANGED <<mcmd, mlocal, mresult>>

\* system_clock advances
Tick ==
    /\ now < MaxTime
    /\ now' = now + 1
    /\ UNCHANGED <<config_, meetings_, mpc, mcmd, mlocal, mresult, mcalls>>
    /\ UNCHANGED nonm

\* a service handler thread hands a command to the manager
MCall(c) ==
    /\ mpc[c] = "idle"
    /\ mcalls < MaxCalls
    /\ mcalls' = mcalls + 1
    /\ \E cmd \in MCommands :
         /\ mpc' = [mpc EXCEPT ![c] = cmd.op]
         /\ mcmd' = [mcmd EXCEPT ![c] = cmd]
    /\ UNCHANGED <<config_, meetings_, now, mlocal, mresult>>
    /\ UNCHANGED nonm

\* InMemoryMeetingRepository::UpdateMeetingState on an existing meeting
RepoUpdateMeetingState(mid, st, at) ==
    meetings_' = [meetings_ EXCEPT ![mid].state = st, ![mid].updated_at = at]

\* InMemoryMeetingRepository::AddParticipant after its checks: push_back
RepoAddParticipant(mid, pid) ==
    meetings_' = [meetings_ EXCEPT ![mid].participants = Append(@, pid)]

\* InMemoryMeetingRepository::RemoveParticipant after its checks: erase
RepoRemoveParticipant(mid, pid) ==
    meetings_' = [meetings_ EXCEPT ![mid].participants = SeqRemove(@, pid)]

\* CreateMeeting up to repository_->CreateMeeting(meeting): the topic is empty or
\* not, the generated id and code are any of the strings the generator can return
CreateMeeting(c) ==
    /\ mpc[c] = "create"
    /\ \E topicEmpty \in BOOLEAN, mid \in MeetingIds, code \in MeetingCodes :
         LET org == mcmd[c].user IN
         IF org = 0 \/ topicEmpty
         THEN /\ MReturn(c, "InvalidArgument")
              /\ UNCHANGED meetings_
         ELSE IF meetings_[mid].present
         THEN /\ MReturn(c, "AlreadyExists")
              /\ UNCHANGED meetings_
         ELSE /\ meetings_' = [meetings_ EXCEPT ![mid] =
                     [present |-> TRUE, meeting_code |-> code, organizer_id |-> org,
                      state |-> "Scheduled", participants |-> <<org>>,
                      updated_at |-> now]]
              /\ mpc' = [mpc EXCEPT ![c] = "create_add"]
              /\ mcmd' = [mcmd EXCEPT ![c].meeting_id = mid]
              /\ UNCHANGED <<mlocal, mresult>>
    /\ UNCHANGED <<config_, now, mcalls>>
    /\ UNCHANGED nonm

\* CreateMeeting: repository_->AddParticipant(meeting_id, organizer_id, true);
\* AlreadyExists is not an error here
CreateAddOrganizer(c) ==
    /\ mpc[c] = "create_add"
    /\ LET mid == mcmd[c].meeting_id
           org == mcmd[c].user IN
         IF ~meetings_[mid].present
         THEN /\ MReturn(c, "NotFound")
              /\ UNCHANGED meetings_
         ELSE IF SeqContains(meetings_[mid].participants, org)
         THEN /\ MReturn(c, "OK")
              /\ UNCHANGED meetings_
         ELSE /\ RepoAddParticipant(mid, org)
              /\ MReturn(c, "OK")
    /\ UNCHANGED <<config_, now, mcalls>>
    /\ UNCHANGED nonm

\* the copy GetMeeting(cmd.meeting_id) returns
MGet(cmd) == IF cmd.meeting_id = "" THEN NoMeeting ELSE meetings_[cmd.meeting_id]

\* JoinMeeting up to the capacity check: GetMeeting and the checks on the copy
JoinMeeting(c) ==
    /\ mpc[c] = "join"
    /\ LET cmd == mcmd[c]
           meeting == MGet(cmd) IN
         IF cmd.meeting_id = "" \/ cmd.user = 0
         THEN MReturn(c, "InvalidArgument")
         ELSE IF ~meeting.present
         THEN MReturn(c, "NotFound")
         ELSE IF meeting.state = "Ended"
         THEN MReturn(c, "InvalidArgument")
         ELSE IF SeqContains(meeting.participants, cmd.user)
         THEN MReturn(c, "AlreadyExists")
         ELSE IF Len(meeting.participants) >= config_.max_participants
         THEN MReturn(c, "Unavailable")
         ELSE /\ mpc' = [mpc EXCEPT ![c] = "join_add"]
              /\ mlocal' = [mlocal EXCEPT ![c] = LocalOf(meeting)]
              /\ UNCHANGED <<mcmd, mresult>>
    /\ UNCHANGED <<config_, meetings_, now, mcalls>>
    /\ UNCHANGED nonm

\* JoinMeeting: repository_->AddParticipant(meeting_id, participant_id, false)
JoinAddParticipant(c) ==
    /\ mpc[c] = "join_add"
    /\ LET mid == mcmd[c].meeting_id
           pid == mcmd[c].user IN
         IF ~meetings_[mid].present
         THEN /\ MReturn(c, "NotFound")
              /\ UNCHANGED meetings_
         ELSE IF SeqContains(meetings_[mid].participants, pid)
         THEN /\ MReturn(c, "AlreadyExists")
              /\ UNCHANGED meetings_
         ELSE /\ RepoAddParticipant(mid, pid)
              /\ IF mlocal[c].state = "Scheduled" /\ pid # mlocal[c].organizer_id
                 THEN MGoto(c, "join_state")
                 ELSE MReturn(c, "OK")
    /\ UNCHANGED <<config_, now, mcalls>>
    /\ UNCHANGED nonm

\* JoinMeeting: repository_->UpdateMeetingState(meeting_id, kRunning, now), its
\* status ignored
JoinUpdateState(c) ==
    /\ mpc[c] = "join_state"
    /\ IF meetings_[mcmd[c].meeting_id].present
       THEN RepoUpdateMeetingState(mcmd[c].meeting_id, "Running", now)
       ELSE UNCHANGED meetings_
    /\ MReturn(c, "OK")
    /\ UNCHANGED <<config_, now, mcalls>>
    /\ UNCHANGED nonm

\* LeaveMeeting up to the membership check on the copy GetMeeting returned
LeaveMeeting(c) ==
    /\ mpc[c] = "leave"
    /\ LET cmd == mcmd[c]
           meeting == MGet(cmd) IN
         IF cmd.meeting_id = "" \/ cmd.user = 0
         THEN MReturn(c, "InvalidArgument")
         ELSE IF ~meeting.present
         THEN MReturn(c, "NotFound")
         ELSE IF ~SeqContains(meeting.participants, cmd.user)
         THEN MReturn(c, "AlreadyExists")
         ELSE /\ mpc' = [mpc EXCEPT ![c] = "leave_remove"]
              /\ mlocal' = [mlocal EXCEPT ![c] = LocalOf(meeting)]
              /\ UNCHANGED <<mcmd, mresult>>
    /\ UNCHANGED <<config_, meetings_, now, mcalls>>
    /\ UNCHANGED nonm

\* LeaveMeeting: repository_->RemoveParticipant(meeting_id, participant_id)
LeaveRemoveParticipant(c) ==
    /\ mpc[c] = "leave_remove"
    /\ LET mid == mcmd[c].meeting_id
           pid == mcmd[c].user IN
         IF ~meetings_[mid].present \/ ~SeqContains(meetings_[mid].participants, pid)
         THEN /\ MReturn(c, "NotFound")
              /\ UNCHANGED meetings_
         ELSE /\ RepoRemoveParticipant(mid, pid)
              /\ IF pid = mlocal[c].organizer_id /\ config_.end_when_organizer_leaves
                 THEN MGoto(c, "leave_end")
                 ELSE MGoto(c, "leave_list")
    /\ UNCHANGED <<config_, now, mcalls>>
    /\ UNCHANGED nonm

\* LeaveMeeting: repository_->ListParticipants(meeting_id) into the copy
LeaveListParticipants(c) ==
    /\ mpc[c] = "leave_list"
    /\ LET mid == mcmd[c].meeting_id
           list == meetings_[mid].participants IN
         IF list = <<>> /\ config_.end_when_empty
         THEN MGoto(c, "leave_end")
         ELSE MReturn(c, "OK")
    /\ UNCHANGED <<config_, meetings_, now, mcalls>>
    /\ UNCHANGED nonm

\* LeaveMeeting: repository_->UpdateMeetingState(meeting_id, kEnded, now), its
\* status ignored
LeaveUpdateState(c) ==
    /\ mpc[c] = "leave_end"
    /\ IF meetings_[mcmd[c].meeting_id].present
       THEN RepoUpdateMeetingState(mcmd[c].meeting_id, "Ended", now)
       ELSE UNCHANGED meetings_
    /\ MReturn(c, "OK")
    /\ UNCHANGED <<config_, now, mcalls>>
    /\ UNCHANGED nonm

\* EndMeeting up to the organizer check on the copy GetMeeting returned
EndMeeting(c) ==
    /\ mpc[c] = "end"
    /\ LET cmd == mcmd[c]
           meeting == MGet(cmd) IN
         IF cmd.meeting_id = "" \/ cmd.user = 0
         THEN MReturn(c, "InvalidArgument")
         ELSE IF ~meeting.present
         THEN MReturn(c, "NotFound")
         ELSE IF meeting.state = "Ended"
         THEN MReturn(c, "InvalidArgument")
         ELSE IF cmd.user # meeting.organizer_id
         THEN MReturn(c, "Unauthenticated")
         ELSE /\ mpc' = [mpc EXCEPT ![c] = "end_update"]
              /\ mlocal' = [mlocal EXCEPT ![c] = LocalOf(meeting)]
              /\ UNCHANGED <<mcmd, mresult>>
    /\ UNCHANGED <<config_, meetings_, now, mcalls>>
    /\ UNCHANGED nonm

\* EndMeeting: return repository_->UpdateMeetingState(meeting_id, kEnded, now)
EndUpdateState(c) ==
    /\ mpc[c] = "end_update"
    /\ IF meetings_[mcmd[c].meeting_id].present
       THEN /\ RepoUpdateMeetingState(mcmd[c].meeting_id, "Ended", now)
            /\ MReturn(c, "OK")
       ELSE /\ UNCHANGED meetings_
            /\ MReturn(c, "NotFound")
    /\ UNCHANGED <<config_, now, mcalls>>
    /\ UNCHANGED nonm

MNext ==
    \/ Tick
    \/ \E c \in MCallers :
        \/ MCall(c)
        \/ CreateMeeting(c) \/ CreateAddOrganizer(c)
        \/ JoinMeeting(c) \/ JoinAddParticipant(c) \/ JoinUpdateState(c)
        \/ LeaveMeeting(c) \/ LeaveRemoveParticipant(c) \/ LeaveListParticipants(c)
        \/ LeaveUpdateState(c)
        \/ EndMeeting(c) \/ EndUpdateState(c)

(***************************************************************************)
(* ThreadPool (thread_pool.cpp, thread_pool.hpp) over BlockingQueueAdapter *)
(* (blocking_queue_adapter.hpp). The ring inside the adapter is taken as   *)
(* the FIFO that C6 shows it to be; each step below is one atomic access   *)
(* of the adapter or the pool. A thread blocked in condition_variable::wait*)
(* leaves only when it is notified. pause_cv_ and submit_cv_ are notified  *)
(* under their mutex after every change that makes their predicate true,   *)
(* so a wait on them is a wait for the predicate.                          *)
(***************************************************************************)
Submitters == {"s1"}
Workers == {"w1"}
Tasks == 1..MaxTasks
NoTask == 0

\* the pool after its constructor, whatever its policy
PConstructed ==
    /\ state_ = "CREATED"
    /\ queue_ = <<>>
    /\ overwrite_mutex_ = ""
    /\ overwrite_cnt_ = 0
    /\ soverwritten = [s \in Submitters |-> NoTask]
    /\ pending_count_ = 0
    /\ close_ = FALSE
    /\ push_mutex_ = ""
    /\ pop_mutex_ = ""
    /\ submit_ing_ = 0
    /\ active_tasks_ = 0
    /\ total_submitted_ = 0 /\ total_completed_ = 0 /\ total_failed_ = 0
    /\ total_cancelled_ = 0 /\ total_rejected_ = 0
    /\ spc = [s \in Submitters |-> "idle"]
    /\ skind = [s \in Submitters |-> ""]
    /\ stasks = [s \in Submitters |-> <<>>]
    /\ spushed = [s \in Submitters |-> 0]
    /\ swaited = [s \in Submitters |-> FALSE]
    /\ sres = [s \in Submitters |-> FALSE]
    /\ wpc = [w \in Workers |-> "none"]
    /\ wtask = [w \in Workers |-> NoTask]
    /\ cpc = "idle"
    /\ cmode = ""
    /\ copt = ""
    /\ expired = FALSE
    /\ tstatus = [t \in Tasks |-> "none"]
    /\ taccepted = [t \in Tasks |-> FALSE]
    /\ ntasks = 0

PInit == PConstructed /\ policy_ \in {"Block", "Discard"}

\* the pool of the other specifications: constructed with policy Block, never started
PIdle == PInit /\ policy_ = "Block"

\* Pending(): queue_.Size()
Pending == pending_count_
\* ActiveTasks()
ActiveTasks == active_tasks_

\* threads blocked in not_empty_.wait and in not_full_.wait
NotEmptyWaiters == {w \in Workers : wpc[w] = "w_waiting"}
NotFullWaiters == {s \in Submitters : spc[s] = "q_waiting"}

\* not_empty_.notify_one() when cond holds: one waiter, if there is one, goes
\* back to taking pop_mutex_
NotifyOneNotEmpty(cond) ==
    IF cond /\ NotEmptyWaiters # {}
    THEN \E w \in NotEmptyWaiters : wpc' = [wpc EXCEPT ![w] = "w_lock"]
    ELSE UNCHANGED wpc

\* not_empty_.notify_all() when cond holds
NotifyAllNotEmpty(cond) ==
    wpc' = [w \in Workers |-> IF cond /\ wpc[w] = "w_waiting" THEN "w_lock" ELSE wpc[w]]

\* spc after not_full_.notify_one(): one waiter goes back to taking push_mutex_
NotifiedOneNotFull(pc) ==
    IF NotFullWaiters = {} THEN {pc}
    ELSE {[pc EXCEPT ![s] = "q_lock"] : s \in NotFullWaiters}

\* spc after not_full_.notify_all()
NotifiedAllNotFull(pc) ==
    [s \in Submitters |-> IF pc[s] = "q_waiting" THEN "q_lock" ELSE pc[s]]

\* the variables a submitter's own steps never touch
PSubmitBase == <<policy_, push_mutex_, pop_mutex_, active_tasks_, total_completed_,
                 total_failed_, wtask, cpc, cmode, copt, expired>>
\* and besides what the steps outside OverwritePush leave alone
PSubmitFrame == <<PSubmitBase, overwrite_mutex_, overwrite_cnt_, soverwritten>>

\* a call ends: its tasks are accepted or not
SFinish(s, nAccepted) ==
    /\ spc' = [spc EXCEPT ![s] = "idle"]
    /\ skind' = [skind EXCEPT ![s] = ""]
    /\ stasks' = [stasks EXCEPT ![s] = <<>>]
    /\ spushed' = [spushed EXCEPT ![s] = 0]
    /\ swaited' = [swaited EXCEPT ![s] = FALSE]
    /\ sres' = [sres EXCEPT ![s] = FALSE]
    /\ taccepted' = [t \in Tasks |->
                       IF \E i \in 1..nAccepted : stasks[s][i] = t THEN TRUE
                       ELSE taccepted[t]]
    /\ tstatus' = [t \in Tasks |->
                       IF \E i \in (nAccepted + 1)..Len(stasks[s]) : stasks[s][i] = t
                       THEN (IF tstatus[t] = "held" THEN "rejected" ELSE tstatus[t])
                       ELSE tstatus[t]]

\* Submit: the FutureTask is made and SubmitHelper's constructor runs SubmitOn()
SubmitCall(s) ==
    /\ spc[s] = "idle"
    /\ ntasks < MaxTasks
    /\ ntasks' = ntasks + 1
    /\ tstatus' = [tstatus EXCEPT ![ntasks + 1] = "held"]
    /\ skind' = [skind EXCEPT ![s] = "Submit"]
    /\ stasks' = [stasks EXCEPT ![s] = <<ntasks + 1>>]
    /\ submit_ing_' = submit_ing_ + 1
    /\ spc' = [spc EXCEPT ![s] = "s_state"]
    /\ UNCHANGED <<state_, queue_, pending_count_, close_, total_submitted_,
                   total_cancelled_, total_rejected_, spushed, swaited, sres, wpc,
                   taccepted>>
    /\ UNCHANGED PSubmitFrame
    /\ UNCHANGED nonp

\* Submit: one turn of the loop on state_.load()
SubmitLoadState(s) ==
    /\ spc[s] = "s_state"
    /\ skind[s] = "Submit"
    /\ LET t == stasks[s][1] IN
       IF state_ = "RUNNING" \/ (swaited[s] /\ state_ = "SHUTTING_DOWN")
       THEN /\ spc' = [spc EXCEPT ![s] = "q_closed"]
            /\ UNCHANGED <<total_cancelled_, total_rejected_, tstatus>>
       ELSE IF state_ = "PAUSED"
       THEN /\ spc' = [spc EXCEPT ![s] = "s_pause"]
            /\ UNCHANGED <<total_cancelled_, total_rejected_, tstatus>>
       ELSE IF swaited[s] /\ state_ = "FORCE_STOPPING"
       THEN /\ total_cancelled_' = total_cancelled_ + 1
            /\ tstatus' = [tstatus EXCEPT ![t] = "cancelled"]
            /\ spc' = [spc EXCEPT ![s] = "s_off"]
            /\ UNCHANGED total_rejected_
       ELSE /\ total_rejected_' = total_rejected_ + 1
            /\ tstatus' = [tstatus EXCEPT ![t] = "rejected"]
            /\ spc' = [spc EXCEPT ![s] = "s_off"]
            /\ UNCHANGED total_cancelled_
    /\ UNCHANGED <<state_, queue_, pending_count_, close_, submit_ing_, total_submitted_,
                   skind, stasks, spushed, swaited, sres, wpc, taccepted, ntasks>>
    /\ UNCHANGED PSubmitFrame
    /\ UNCHANGED nonp

\* Submit and Post: pause_cv_.wait(lk, state_ != PAUSED) returns
PauseWaitReturn(s) ==
    /\ spc[s] = "s_pause"
    /\ state_ # "PAUSED"
    /\ swaited' = [swaited EXCEPT ![s] = TRUE]
    /\ spc' = [spc EXCEPT ![s] = "s_state"]
    /\ UNCHANGED <<state_, queue_, pending_count_, close_, submit_ing_, total_submitted_,
                   total_cancelled_, total_rejected_, skind, stasks, spushed, sres, wpc,
                   tstatus, taccepted, ntasks>>
    /\ UNCHANGED PSubmitFrame
    /\ UNCHANGED nonp

\* Post: the SimpleTask is made; no SubmitOn()
PostCall(s) ==
    /\ spc[s] = "idle"
    /\ ntasks < MaxTasks
    /\ ntasks' = ntasks + 1
    /\ tstatus' = [tstatus EXCEPT ![ntasks + 1] = "held"]
    /\ skind' = [skind EXCEPT ![s] = "Post"]
    /\ stasks' = [stasks EXCEPT ![s] = <<ntasks + 1>>]
    /\ spc' = [spc EXCEPT ![s] = "s_state"]
    /\ UNCHANGED <<state_, queue_, pending_count_, close_, submit_ing_, total_submitted_,
                   total_cancelled_, total_rejected_, spushed, swaited, sres, wpc,
                   taccepted>>
    /\ UNCHANGED PSubmitFrame
    /\ UNCHANGED nonp

\* Post: one turn of the loop on state_.load()
PostLoadState(s) ==
    /\ spc[s] = "s_state"
    /\ skind[s] = "Post"
    /\ IF state_ \in {"RUNNING", "PAUSED"}
       THEN /\ spc' = [spc EXCEPT ![s] = IF state_ = "RUNNING" THEN "q_closed" ELSE "s_pause"]
            /\ UNCHANGED <<total_rejected_, skind, stasks, spushed, swaited, sres,
                           tstatus, taccepted>>
       ELSE /\ total_rejected_' = total_rejected_ + 1
            /\ SFinish(s, 0)
    /\ UNCHANGED <<state_, queue_, pending_count_, close_, submit_ing_, total_submitted_,
                   total_cancelled_, wpc, ntasks>>
    /\ UNCHANGED PSubmitFrame
    /\ UNCHANGED nonp

\* WaitPush / TryPush: if (Closed()) return false
PushClosedCheck(s) ==
    /\ spc[s] = "q_closed"
    /\ policy_ # "Overwrite"
    /\ spc' = [spc EXCEPT ![s] = IF close_ THEN "q_ret" ELSE "q_try"]
    /\ sres' = [sres EXCEPT ![s] = FALSE]
    /\ UNCHANGED <<state_, queue_, pending_count_, close_, submit_ing_, total_submitted_,
                   total_cancelled_, total_rejected_, skind, stasks, spushed, swaited,
                   wpc, tstatus, taccepted, ntasks>>
    /\ UNCHANGED PSubmitFrame
    /\ UNCHANGED nonp

\* WaitPush / TryPush: queue_.TryPushWith on the fast path; when the ring is
\* full TryPush returns false and WaitPush goes on to lock push_mutex_
PushTry(s) ==
    /\ spc[s] = "q_try"
    /\ IF Len(queue_) < capacity_
       THEN /\ queue_' = Append(queue_, stasks[s][1])
            /\ tstatus' = [tstatus EXCEPT ![stasks[s][1]] = "queued"]
            /\ spc' = [spc EXCEPT ![s] = "q_count"]
       ELSE /\ spc' = [spc EXCEPT ![s] = IF policy_ = "Block" THEN "q_lock" ELSE "q_ret"]
            /\ UNCHANGED <<queue_, tstatus>>
    /\ UNCHANGED <<state_, pending_count_, close_, submit_ing_, total_submitted_,
                   total_cancelled_, total_rejected_, skind, stasks, spushed, swaited,
                   sres, wpc, taccepted, ntasks>>
    /\ UNCHANGED PSubmitFrame
    /\ UNCHANGED nonp

\* WaitPush / TryPush: prev = pending_count_.fetch_add(1); if (prev == 0)
\* not_empty_.notify_one(); return true
PushCount(s) ==
    /\ spc[s] = "q_count"
    /\ pending_count_' = pending_count_ + 1
    /\ NotifyOneNotEmpty(pending_count_ = 0)
    /\ sres' = [sres EXCEPT ![s] = TRUE]
    /\ spc' = [spc EXCEPT ![s] = "q_ret"]
    /\ UNCHANGED <<state_, queue_, close_, submit_ing_, total_submitted_,
                   total_cancelled_, total_rejected_, skind, stasks, spushed, swaited,
                   tstatus, taccepted, ntasks>>
    /\ UNCHANGED PSubmitFrame
    /\ UNCHANGED nonp

\* WaitPush: std::unique_lock lk(push_mutex_), also on the way out of wait
PushLock(s) ==
    /\ spc[s] = "q_lock"
    /\ push_mutex_ = ""
    /\ push_mutex_' = s
    /\ spc' = [spc EXCEPT ![s] = "q_sclosed"]
    /\ UNCHANGED <<state_, queue_, pending_count_, close_, submit_ing_, total_submitted_,
                   total_cancelled_, total_rejected_, skind, stasks, spushed, swaited,
                   sres, wpc, tstatus, taccepted, ntasks>>
    /\ UNCHANGED <<policy_, pop_mutex_, active_tasks_, total_completed_, total_failed_,
                   wtask, cpc, cmode, copt, expired, overwrite_mutex_,
                   overwrite_cnt_, soverwritten>>
    /\ UNCHANGED nonp

\* WaitPush, under push_mutex_: if (Closed()) return false
PushSlowClosedCheck(s) ==
    /\ spc[s] = "q_sclosed"
    /\ IF close_
       THEN /\ push_mutex_' = ""
            /\ spc' = [spc EXCEPT ![s] = "q_ret"]
       ELSE /\ spc' = [spc EXCEPT ![s] = "q_stry"]
            /\ UNCHANGED push_mutex_
    /\ UNCHANGED <<state_, queue_, pending_count_, close_, submit_ing_, total_submitted_,
                   total_cancelled_, total_rejected_, skind, stasks, spushed, swaited,
                   sres, wpc, tstatus, taccepted, ntasks>>
    /\ UNCHANGED <<policy_, pop_mutex_, active_tasks_, total_completed_, total_failed_,
                   wtask, cpc, cmode, copt, expired, overwrite_mutex_,
                   overwrite_cnt_, soverwritten>>
    /\ UNCHANGED nonp

\* WaitPush, under push_mutex_: try_push_value()
PushSlowTry(s) ==
    /\ spc[s] = "q_stry"
    /\ IF Len(queue_) < capacity_
       THEN /\ queue_' = Append(queue_, stasks[s][1])
            /\ tstatus' = [tstatus EXCEPT ![stasks[s][1]] = "queued"]
            /\ spc' = [spc EXCEPT ![s] = "q_scount"]
       ELSE /\ spc' = [spc EXCEPT ![s] = "q_enter"]
            /\ UNCHANGED <<queue_, tstatus>>
    /\ UNCHANGED <<state_, pending_count_, close_, submit_ing_, total_submitted_,
                   total_cancelled_, total_rejected_, skind, stasks, spushed, swaited,
                   sres, wpc, taccepted, ntasks>>
    /\ UNCHANGED PSubmitFrame
    /\ UNCHANGED nonp

\* WaitPush: not_full_.wait(lk) releases push_mutex_ and blocks
PushWait(s) ==
    /\ spc[s] = "q_enter"
    /\ push_mutex_' = ""
    /\ spc' = [spc EXCEPT ![s] = "q_waiting"]
    /\ UNCHANGED <<state_, queue_, pending_count_, close_, submit_ing_, total_submitted_,
                   total_cancelled_, total_rejected_, skind, stasks, spushed, swaited,
                   sres, wpc, tstatus, taccepted, ntasks>>
    /\ UNCHANGED <<policy_, pop_mutex_, active_tasks_, total_completed_, total_failed_,
                   wtask, cpc, cmode, copt, expired, overwrite_mutex_,
                   overwrite_cnt_, soverwritten>>
    /\ UNCHANGED nonp

\* WaitPush, under push_mutex_: prev = pending_count_.fetch_add(1); lk.unlock();
\* if (prev == 0) not_empty_.notify_one(); return true
PushSlowCount(s) ==
    /\ spc[s] = "q_scount"
    /\ pending_count_' = pending_count_ + 1
    /\ push_mutex_' = ""
    /\ NotifyOneNotEmpty(pending_count_ = 0)
    /\ sres' = [sres EXCEPT ![s] = TRUE]
    /\ spc' = [spc EXCEPT ![s] = "q_ret"]
    /\ UNCHANGED <<state_, queue_, close_, submit_ing_, total_submitted_,
                   total_cancelled_, total_rejected_, skind, stasks, spushed, swaited,
                   tstatus, taccepted, ntasks>>
    /\ UNCHANGED <<policy_, pop_mutex_, active_tasks_, total_completed_, total_failed_,
                   wtask, cpc, cmode, copt, expired, overwrite_mutex_,
                   overwrite_cnt_, soverwritten>>
    /\ UNCHANGED nonp

\* Submit after the push: total_submitted_ or total_rejected_ goes up
SubmitAfterPush(s) ==
    /\ spc[s] = "q_ret"
    /\ skind[s] = "Submit"
    /\ IF sres[s]
       THEN total_submitted_' = total_submitted_ + 1 /\ UNCHANGED total_rejected_
       ELSE total_rejected_' = total_rejected_ + 1 /\ UNCHANGED total_submitted_
    /\ spc' = [spc EXCEPT ![s] = "s_off"]
    /\ UNCHANGED <<state_, queue_, pending_count_, close_, submit_ing_,
                   total_cancelled_, skind, stasks, spushed, swaited, sres, wpc,
                   tstatus, taccepted, ntasks>>
    /\ UNCHANGED PSubmitFrame
    /\ UNCHANGED nonp

\* Submit returns: ~SubmitHelper runs SubmitOff()
SubmitOff(s) ==
    /\ spc[s] = "s_off"
    /\ submit_ing_' = submit_ing_ - 1
    /\ SFinish(s, IF sres[s] THEN 1 ELSE 0)
    /\ UNCHANGED <<state_, queue_, pending_count_, close_, total_submitted_,
                   total_cancelled_, total_rejected_, wpc, ntasks>>
    /\ UNCHANGED PSubmitFrame
    /\ UNCHANGED nonp

\* Post after the push: total_submitted_ or total_rejected_ goes up, Post returns
PostAfterPush(s) ==
    /\ spc[s] = "q_ret"
    /\ skind[s] = "Post"
    /\ IF sres[s]
       THEN total_submitted_' = total_submitted_ + 1 /\ UNCHANGED total_rejected_
       ELSE total_rejected_' = total_rejected_ + 1 /\ UNCHANGED total_submitted_
    /\ SFinish(s, IF sres[s] THEN 1 ELSE 0)
    /\ UNCHANGED <<state_, queue_, pending_count_, close_, submit_ing_,
                   total_cancelled_, wpc, ntasks>>
    /\ UNCHANGED PSubmitFrame
    /\ UNCHANGED nonp

\* PostBatch: if (State() != RUNNING) return 0; otherwise the tasks are made
PostBatchCall(s) ==
    /\ spc[s] = "idle"
    /\ \E n \in 1..MaxBatch :
         /\ ntasks + n <= MaxTasks
         /\ ntasks' = ntasks + n
         /\ IF state_ = "RUNNING"
            THEN /\ tstatus' = [t \in Tasks |-> IF t \in (ntasks + 1)..(ntasks + n)
                                                THEN "held" ELSE tstatus[t]]
                 /\ skind' = [skind EXCEPT ![s] = "PostBatch"]
                 /\ stasks' = [stasks EXCEPT ![s] = [i \in 1..n |-> ntasks + i]]
                 /\ spc' = [spc EXCEPT ![s] = "b_closed"]
            ELSE /\ tstatus' = [t \in Tasks |-> IF t \in (ntasks + 1)..(ntasks + n)
                                                THEN "rejected" ELSE tstatus[t]]
                 /\ UNCHANGED <<skind, stasks, spc>>
    /\ UNCHANGED <<state_, queue_, pending_count_, close_, submit_ing_, total_submitted_,
                   total_cancelled_, total_rejected_, spushed, swaited, sres, wpc,
                   taccepted>>
    /\ UNCHANGED PSubmitFrame
    /\ UNCHANGED nonp

\* TryPushBatch: if (Closed()) return 0
PostBatchClosedCheck(s) ==
    /\ spc[s] = "b_closed"
    /\ spc' = [spc EXCEPT ![s] = IF close_ THEN "b_total" ELSE "b_push"]
    /\ UNCHANGED <<state_, queue_, pending_count_, close_, submit_ing_, total_submitted_,
                   total_cancelled_, total_rejected_, skind, stasks, spushed, swaited,
                   sres, wpc, tstatus, taccepted, ntasks>>
    /\ UNCHANGED PSubmitFrame
    /\ UNCHANGED nonp

\* BoundedCircularQueue::TryPushBatch: one TryPushWith of its loop; the loop
\* ends after the last task or at the first push the full ring refuses
PostBatchPush(s) ==
    /\ spc[s] = "b_push"
    /\ IF Len(queue_) < capacity_
       THEN /\ queue_' = Append(queue_, stasks[s][spushed[s] + 1])
            /\ tstatus' = [tstatus EXCEPT ![stasks[s][spushed[s] + 1]] = "queued"]
            /\ spushed' = [spushed EXCEPT ![s] = @ + 1]
            /\ spc' = [spc EXCEPT ![s] = IF spushed[s] + 1 = Len(stasks[s])
                                         THEN "b_count" ELSE "b_push"]
       ELSE /\ spc' = [spc EXCEPT ![s] = IF spushed[s] > 0 THEN "b_count" ELSE "b_total"]
            /\ UNCHANGED <<queue_, tstatus, spushed>>
    /\ UNCHANGED <<state_, pending_count_, close_, submit_ing_, total_submitted_,
                   total_cancelled_, total_rejected_, skind, stasks, swaited, sres, wpc,
                   taccepted, ntasks>>
    /\ UNCHANGED PSubmitFrame
    /\ UNCHANGED nonp

\* TryPushBatch: prev = pending_count_.fetch_add(count); if (prev == 0)
\* not_empty_.notify_all()
PostBatchCount(s) ==
    /\ spc[s] = "b_count"
    /\ pending_count_' = pending_count_ + spushed[s]
    /\ NotifyAllNotEmpty(pending_count_ = 0)
    /\ spc' = [spc EXCEPT ![s] = "b_total"]
    /\ UNCHANGED <<state_, queue_, close_, submit_ing_, total_submitted_,
                   total_cancelled_, total_rejected_, skind, stasks, spushed, swaited,
                   sres, tstatus, taccepted, ntasks>>
    /\ UNCHANGED PSubmitFrame
    /\ UNCHANGED nonp

\* PostBatch: total_submitted_.fetch_add(count); return count
PostBatchTotal(s) ==
    /\ spc[s] = "b_total"
    /\ total_submitted_' = total_submitted_ + spushed[s]
    /\ SFinish(s, spushed[s])
    /\ UNCHANGED <<state_, queue_, pending_count_, close_, submit_ing_,
                   total_cancelled_, total_rejected_, wpc, ntasks>>
    /\ UNCHANGED PSubmitFrame
    /\ UNCHANGED nonp

\* what no step of OverwritePush or of the Overwrite case of Submit changes
POverwriteFrame == <<state_, close_, submit_ing_, skind, stasks, spushed, swaited,
                     taccepted, ntasks>>

\* OverwritePush: if (Closed()) return false
OverwriteClosedCheck(s) ==
    /\ spc[s] = "q_closed"
    /\ policy_ = "Overwrite"
    /\ spc' = [spc EXCEPT ![s] = IF close_ THEN "o_ret" ELSE "o_try"]
    /\ sres' = [sres EXCEPT ![s] = FALSE]
    /\ UNCHANGED <<queue_, pending_count_, total_submitted_, total_cancelled_,
                   total_rejected_, wpc, tstatus, overwrite_mutex_, overwrite_cnt_,
                   soverwritten>>
    /\ UNCHANGED POverwriteFrame
    /\ UNCHANGED PSubmitBase
    /\ UNCHANGED nonp

\* OverwritePush, fast path: try_push_hold()
OverwriteTry(s) ==
    /\ spc[s] = "o_try"
    /\ IF Len(queue_) < capacity_
       THEN /\ queue_' = Append(queue_, stasks[s][1])
            /\ tstatus' = [tstatus EXCEPT ![stasks[s][1]] = "queued"]
            /\ spc' = [spc EXCEPT ![s] = "o_count"]
       ELSE /\ spc' = [spc EXCEPT ![s] = "o_lock"]
            /\ UNCHANGED <<queue_, tstatus>>
    /\ UNCHANGED <<pending_count_, total_submitted_, total_cancelled_, total_rejected_,
                   sres, wpc, overwrite_mutex_, overwrite_cnt_, soverwritten>>
    /\ UNCHANGED POverwriteFrame
    /\ UNCHANGED PSubmitBase
    /\ UNCHANGED nonp

\* OverwritePush, fast path: pending_count_.fetch_add(1),
\* not_empty_.notify_one(), return true
OverwriteCount(s) ==
    /\ spc[s] = "o_count"
    /\ pending_count_' = pending_count_ + 1
    /\ NotifyOneNotEmpty(TRUE)
    /\ sres' = [sres EXCEPT ![s] = TRUE]
    /\ spc' = [spc EXCEPT ![s] = "o_ret"]
    /\ UNCHANGED <<queue_, total_submitted_, total_cancelled_, total_rejected_, tstatus,
                   overwrite_mutex_, overwrite_cnt_, soverwritten>>
    /\ UNCHANGED POverwriteFrame
    /\ UNCHANGED PSubmitBase
    /\ UNCHANGED nonp

\* OverwritePush: std::unique_lock lk(overwrite_mutex_)
OverwriteLock(s) ==
    /\ spc[s] = "o_lock"
    /\ overwrite_mutex_ = ""
    /\ overwrite_mutex_' = s
    /\ spc' = [spc EXCEPT ![s] = "o_sclosed"]
    /\ UNCHANGED <<queue_, pending_count_, total_submitted_, total_cancelled_,
                   total_rejected_, sres, wpc, tstatus, overwrite_cnt_, soverwritten>>
    /\ UNCHANGED POverwriteFrame
    /\ UNCHANGED PSubmitBase
    /\ UNCHANGED nonp

\* OverwritePush under the lock: if (Closed()) return false
OverwriteSlowClosedCheck(s) ==
    /\ spc[s] = "o_sclosed"
    /\ IF close_
       THEN /\ overwrite_mutex_' = ""
            /\ spc' = [spc EXCEPT ![s] = "o_ret"]
       ELSE /\ spc' = [spc EXCEPT ![s] = "o_pop"]
            /\ UNCHANGED overwrite_mutex_
    /\ UNCHANGED <<queue_, pending_count_, total_submitted_, total_cancelled_,
                   total_rejected_, sres, wpc, tstatus, overwrite_cnt_, soverwritten>>
    /\ UNCHANGED POverwriteFrame
    /\ UNCHANGED PSubmitBase
    /\ UNCHANGED nonp

\* OverwritePush: queue_.TryPopConsume takes the oldest element of the ring into
\* tmp; when the ring is empty OverwritePush returns false
OverwritePop(s) ==
    /\ spc[s] = "o_pop"
    /\ IF queue_ = <<>>
       THEN /\ overwrite_mutex_' = ""
            /\ spc' = [spc EXCEPT ![s] = "o_ret"]
            /\ UNCHANGED <<queue_, soverwritten, tstatus>>
       ELSE /\ queue_' = Tail(queue_)
            /\ soverwritten' = [soverwritten EXCEPT ![s] = Head(queue_)]
            /\ tstatus' = [tstatus EXCEPT ![Head(queue_)] = "taken"]
            /\ spc' = [spc EXCEPT ![s] = "o_dec"]
            /\ UNCHANGED overwrite_mutex_
    /\ UNCHANGED <<pending_count_, total_submitted_, total_cancelled_, total_rejected_,
                   sres, wpc, overwrite_cnt_>>
    /\ UNCHANGED POverwriteFrame
    /\ UNCHANGED PSubmitBase
    /\ UNCHANGED nonp

\* OverwritePush: pending_count_.fetch_sub(1); *overwritten = std::move(*tmp)
OverwriteDec(s) ==
    /\ spc[s] = "o_dec"
    /\ pending_count_' = pending_count_ - 1
    /\ spc' = [spc EXCEPT ![s] = "o_spush"]
    /\ UNCHANGED <<queue_, total_submitted_, total_cancelled_, total_rejected_, sres,
                   wpc, tstatus, overwrite_mutex_, overwrite_cnt_, soverwritten>>
    /\ UNCHANGED POverwriteFrame
    /\ UNCHANGED PSubmitBase
    /\ UNCHANGED nonp

\* OverwritePush: ok = try_push_hold() after the pop
OverwriteSlowPush(s) ==
    /\ spc[s] = "o_spush"
    /\ IF Len(queue_) < capacity_
       THEN /\ queue_' = Append(queue_, stasks[s][1])
            /\ tstatus' = [tstatus EXCEPT ![stasks[s][1]] = "queued"]
            /\ sres' = [sres EXCEPT ![s] = TRUE]
            /\ spc' = [spc EXCEPT ![s] = "o_scount"]
       ELSE /\ spc' = [spc EXCEPT ![s] = "o_unlock"]
            /\ UNCHANGED <<queue_, tstatus, sres>>
    /\ UNCHANGED <<pending_count_, total_submitted_, total_cancelled_, total_rejected_,
                   wpc, overwrite_mutex_, overwrite_cnt_, soverwritten>>
    /\ UNCHANGED POverwriteFrame
    /\ UNCHANGED PSubmitBase
    /\ UNCHANGED nonp

\* OverwritePush: if (ok) pending_count_.fetch_add(1)
OverwriteSlowCount(s) ==
    /\ spc[s] = "o_scount"
    /\ pending_count_' = pending_count_ + 1
    /\ spc' = [spc EXCEPT ![s] = "o_unlock"]
    /\ UNCHANGED <<queue_, total_submitted_, total_cancelled_, total_rejected_, sres,
                   wpc, tstatus, overwrite_mutex_, overwrite_cnt_, soverwritten>>
    /\ UNCHANGED POverwriteFrame
    /\ UNCHANGED PSubmitBase
    /\ UNCHANGED nonp

\* OverwritePush: lk.unlock(), not_empty_.notify_one(), return ok
OverwriteUnlock(s) ==
    /\ spc[s] = "o_unlock"
    /\ overwrite_mutex_' = ""
    /\ NotifyOneNotEmpty(TRUE)
    /\ spc' = [spc EXCEPT ![s] = "o_ret"]
    /\ UNCHANGED <<queue_, pending_count_, total_submitted_, total_cancelled_,
                   total_rejected_, sres, tstatus, overwrite_cnt_, soverwritten>>
    /\ UNCHANGED POverwriteFrame
    /\ UNCHANGED PSubmitBase
    /\ UNCHANGED nonp

\* Submit, case Overwrite, after OverwritePush: the displaced task, if there is
\* one, is cancelled and counted in total_cancelled_ and overwrite_cnt_; the
\* new task is counted as submitted or as rejected
SubmitAfterOverwrite(s) ==
    /\ spc[s] = "o_ret"
    /\ skind[s] = "Submit"
    /\ IF soverwritten[s] # NoTask
       THEN /\ tstatus' = [tstatus EXCEPT ![soverwritten[s]] = "cancelled"]
            /\ total_cancelled_' = total_cancelled_ + 1
            /\ overwrite_cnt_' = overwrite_cnt_ + 1
       ELSE UNCHANGED <<tstatus, total_cancelled_, overwrite_cnt_>>
    /\ IF sres[s]
       THEN total_submitted_' = total_submitted_ + 1 /\ UNCHANGED total_rejected_
       ELSE total_rejected_' = total_rejected_ + 1 /\ UNCHANGED total_submitted_
    /\ soverwritten' = [soverwritten EXCEPT ![s] = NoTask]
    /\ spc' = [spc EXCEPT ![s] = "s_off"]
    /\ UNCHANGED <<queue_, pending_count_, sres, wpc, overwrite_mutex_>>
    /\ UNCHANGED POverwriteFrame
    /\ UNCHANGED PSubmitBase
    /\ UNCHANGED nonp

\* a Submit call on a pool whose policy is Overwrite
OverwriteSubmitStep(s) ==
    \/ SubmitCall(s) \/ SubmitLoadState(s)
    \/ OverwriteClosedCheck(s) \/ OverwriteTry(s) \/ OverwriteCount(s)
    \/ OverwriteLock(s) \/ OverwriteSlowClosedCheck(s) \/ OverwritePop(s)
    \/ OverwriteDec(s) \/ OverwriteSlowPush(s) \/ OverwriteSlowCount(s)
    \/ OverwriteUnlock(s) \/ SubmitAfterOverwrite(s) \/ SubmitOff(s)

SubmitterStep(s) ==
    \/ SubmitCall(s) \/ SubmitLoadState(s) \/ PauseWaitReturn(s)
    \/ PostCall(s) \/ PostLoadState(s)
    \/ PushClosedCheck(s) \/ PushTry(s) \/ PushCount(s) \/ PushLock(s)
    \/ PushSlowClosedCheck(s) \/ PushSlowTry(s) \/ PushWait(s) \/ PushSlowCount(s)
    \/ SubmitAfterPush(s) \/ SubmitOff(s) \/ PostAfterPush(s)
    \/ PostBatchCall(s) \/ PostBatchClosedCheck(s) \/ PostBatchPush(s)
    \/ PostBatchCount(s) \/ PostBatchTotal(s)

\* the variables a worker's own steps never touch
PWorkerFrame == <<policy_, close_, push_mutex_, submit_ing_, total_submitted_,
                  total_cancelled_, total_rejected_, skind, stasks, spushed, swaited,
                  sres, cmode, copt, expired, taccepted, ntasks, overwrite_mutex_,
                  overwrite_cnt_, soverwritten>>

\* drain_cv_.notify_all() under drain_mtx_: Stop, if it waits there, looks again
NotifiedDrain(pc) == IF pc = "c_drain_wait" THEN "c_drain" ELSE pc

\* WorkerLoop: the wait while state_ is PAUSED, then the FORCE_STOPPING test
WorkerCheckState(w) ==
    /\ wpc[w] = "w_state"
    /\ state_ # "PAUSED"
    /\ wpc' = [wpc EXCEPT ![w] = IF state_ = "FORCE_STOPPING" THEN "w_exit" ELSE "w_pop"]
    /\ UNCHANGED <<state_, queue_, pending_count_, pop_mutex_, active_tasks_,
                   total_completed_, total_failed_, spc, wtask, cpc, tstatus>>
    /\ UNCHANGED PWorkerFrame
    /\ UNCHANGED nonp

\* WaitPop: queue_.TryPop(out) on the fast path
WorkerTryPop(w) ==
    /\ wpc[w] = "w_pop"
    /\ IF queue_ # <<>>
       THEN /\ wtask' = [wtask EXCEPT ![w] = Head(queue_)]
            /\ queue_' = Tail(queue_)
            /\ tstatus' = [tstatus EXCEPT ![Head(queue_)] = "taken"]
            /\ wpc' = [wpc EXCEPT ![w] = "w_dec"]
       ELSE /\ wpc' = [wpc EXCEPT ![w] = "w_lock"]
            /\ UNCHANGED <<wtask, queue_, tstatus>>
    /\ UNCHANGED <<state_, pending_count_, pop_mutex_, active_tasks_,
                   total_completed_, total_failed_, spc, cpc>>
    /\ UNCHANGED PWorkerFrame
    /\ UNCHANGED nonp

\* WaitPop: pending_count_.fetch_sub(1); not_full_.notify_one(); return true
WorkerDec(w) ==
    /\ wpc[w] = "w_dec"
    /\ pending_count_' = pending_count_ - 1
    /\ spc' \in NotifiedOneNotFull(spc)
    /\ wpc' = [wpc EXCEPT ![w] = "w_on"]
    /\ UNCHANGED <<state_, queue_, pop_mutex_, active_tasks_, total_completed_,
                   total_failed_, wtask, cpc, tstatus>>
    /\ UNCHANGED PWorkerFrame
    /\ UNCHANGED nonp

\* WaitPop: std::unique_lock lk(pop_mutex_), also on the way out of wait
WorkerLock(w) ==
    /\ wpc[w] = "w_lock"
    /\ pop_mutex_ = ""
    /\ pop_mutex_' = w
    /\ wpc' = [wpc EXCEPT ![w] = "w_spop"]
    /\ UNCHANGED <<state_, queue_, pending_count_, active_tasks_, total_completed_,
                   total_failed_, spc, wtask, cpc, tstatus>>
    /\ UNCHANGED PWorkerFrame
    /\ UNCHANGED nonp

\* WaitPop, under pop_mutex_: while (!queue_.TryPop(out))
WorkerSlowPop(w) ==
    /\ wpc[w] = "w_spop"
    /\ IF queue_ # <<>>
       THEN /\ wtask' = [wtask EXCEPT ![w] = Head(queue_)]
            /\ queue_' = Tail(queue_)
            /\ tstatus' = [tstatus EXCEPT ![Head(queue_)] = "taken"]
            /\ wpc' = [wpc EXCEPT ![w] = "w_sdec"]
       ELSE /\ wpc' = [wpc EXCEPT ![w] = "w_closed"]
            /\ UNCHANGED <<wtask, queue_, tstatus>>
    /\ UNCHANGED <<state_, pending_count_, pop_mutex_, active_tasks_,
                   total_completed_, total_failed_, spc, cpc>>
    /\ UNCHANGED PWorkerFrame
    /\ UNCHANGED nonp

\* WaitPop, under pop_mutex_: if (Closed()) return false, and then WorkerLoop
\* leaves its loop because queue_.Closed()
WorkerClosedCheck(w) ==
    /\ wpc[w] = "w_closed"
    /\ IF close_
       THEN /\ pop_mutex_' = ""
            /\ wpc' = [wpc EXCEPT ![w] = "w_exit"]
       ELSE /\ wpc' = [wpc EXCEPT ![w] = "w_enter"]
            /\ UNCHANGED pop_mutex_
    /\ UNCHANGED <<state_, queue_, pending_count_, active_tasks_, total_completed_,
                   total_failed_, spc, wtask, cpc, tstatus>>
    /\ UNCHANGED PWorkerFrame
    /\ UNCHANGED nonp

\* WaitPop: not_empty_.wait(lk) releases pop_mutex_ and blocks
WorkerWait(w) ==
    /\ wpc[w] = "w_enter"
    /\ pop_mutex_' = ""
    /\ wpc' = [wpc EXCEPT ![w] = "w_waiting"]
    /\ UNCHANGED <<state_, queue_, pending_count_, active_tasks_, total_completed_,
                   total_failed_, spc, wtask, cpc, tstatus>>
    /\ UNCHANGED PWorkerFrame
    /\ UNCHANGED nonp

\* WaitPop, under pop_mutex_: pending_count_.fetch_sub(1); lk.unlock();
\* not_full_.notify_one(); return true
WorkerSlowDec(w) ==
    /\ wpc[w] = "w_sdec"
    /\ pending_count_' = pending_count_ - 1
    /\ pop_mutex_' = ""
    /\ spc' \in NotifiedOneNotFull(spc)
    /\ wpc' = [wpc EXCEPT ![w] = "w_on"]
    /\ UNCHANGED <<state_, queue_, active_tasks_, total_completed_, total_failed_,
                   wtask, cpc, tstatus>>
    /\ UNCHANGED PWorkerFrame
    /\ UNCHANGED nonp

\* WorkerCounterHelper::TaskOn
WorkerTaskOn(w) ==
    /\ wpc[w] = "w_on"
    /\ active_tasks_' = active_tasks_ + 1
    /\ wpc' = [wpc EXCEPT ![w] = "w_exec"]
    /\ UNCHANGED <<state_, queue_, pending_count_, pop_mutex_, total_completed_,
                   total_failed_, spc, wtask, cpc, tstatus>>
    /\ UNCHANGED PWorkerFrame
    /\ UNCHANGED nonp

\* task->Execute() runs the task to its end, with or without an exception, and
\* RecordTaskComplete counts it
WorkerExecute(w) ==
    /\ wpc[w] = "w_exec"
    /\ \E ok \in BOOLEAN :
         /\ tstatus' = [tstatus EXCEPT ![wtask[w]] = IF ok THEN "completed" ELSE "failed"]
         /\ total_completed_' = total_completed_ + (IF ok THEN 1 ELSE 0)
         /\ total_failed_' = total_failed_ + (IF ok THEN 0 ELSE 1)
    /\ wpc' = [wpc EXCEPT ![w] = "w_off"]
    /\ UNCHANGED <<state_, queue_, pending_count_, pop_mutex_, active_tasks_, spc,
                   wtask, cpc>>
    /\ UNCHANGED PWorkerFrame
    /\ UNCHANGED nonp

\* WorkerCounterHelper::TaskOff
WorkerTaskOff(w) ==
    /\ wpc[w] = "w_off"
    /\ active_tasks_' = active_tasks_ - 1
    /\ wpc' = [wpc EXCEPT ![w] = "w_drain"]
    /\ UNCHANGED <<state_, queue_, pending_count_, pop_mutex_, total_completed_,
                   total_failed_, spc, wtask, cpc, tstatus>>
    /\ UNCHANGED PWorkerFrame
    /\ UNCHANGED nonp

\* WorkerLoop: if (ActiveTasks() == 0 && Pending() == 0) drain_cv_.notify_all(),
\* and the loop starts over
WorkerDrainNotify(w) ==
    /\ wpc[w] = "w_drain"
    /\ cpc' = IF ActiveTasks = 0 /\ Pending = 0 THEN NotifiedDrain(cpc) ELSE cpc
    /\ wtask' = [wtask EXCEPT ![w] = NoTask]
    /\ wpc' = [wpc EXCEPT ![w] = "w_state"]
    /\ UNCHANGED <<state_, queue_, pending_count_, pop_mutex_, active_tasks_,
                   total_completed_, total_failed_, spc, tstatus>>
    /\ UNCHANGED PWorkerFrame
    /\ UNCHANGED nonp

\* WorkerLoop returns: ~WorkerCounterHelper notifies drain_cv_
WorkerExit(w) ==
    /\ wpc[w] = "w_exit"
    /\ cpc' = NotifiedDrain(cpc)
    /\ wpc' = [wpc EXCEPT ![w] = "exited"]
    /\ UNCHANGED <<state_, queue_, pending_count_, pop_mutex_, active_tasks_,
                   total_completed_, total_failed_, spc, wtask, tstatus>>
    /\ UNCHANGED PWorkerFrame
    /\ UNCHANGED nonp

WorkerStep(w) ==
    \/ WorkerCheckState(w) \/ WorkerTryPop(w) \/ WorkerDec(w) \/ WorkerLock(w)
    \/ WorkerSlowPop(w) \/ WorkerClosedCheck(w) \/ WorkerWait(w) \/ WorkerSlowDec(w)
    \/ WorkerTaskOn(w) \/ WorkerExecute(w) \/ WorkerTaskOff(w)
    \/ WorkerDrainNotify(w) \/ WorkerExit(w)

\* the steps of a worker of a pool that is not being stopped
WorkerRunStep(w) ==
    \/ WorkerCheckState(w) \/ WorkerTryPop(w) \/ WorkerDec(w) \/ WorkerLock(w)
    \/ WorkerSlowPop(w) \/ WorkerClosedCheck(w) \/ WorkerWait(w) \/ WorkerSlowDec(w)
    \/ WorkerTaskOn(w) \/ WorkerExecute(w) \/ WorkerTaskOff(w)
    \/ WorkerDrainNotify(w)

\* the variables the controlling thread's steps never touch
PControlFrame == <<policy_, push_mutex_, pop_mutex_, submit_ing_, active_tasks_,
                   total_submitted_, total_completed_, total_failed_, total_rejected_,
                   skind, stasks, spushed, swaited, sres, wtask, taccepted, ntasks,
                   overwrite_mutex_, overwrite_cnt_, soverwritten>>
\* and besides what the steps of a plain Stop, Start, Pause or Resume leave alone
PStopFrame == <<PControlFrame, copt, expired>>

\* Start(): CREATED -> RUNNING and the core workers are created
Start ==
    /\ cpc = "idle"
    /\ state_ = "CREATED"
    /\ state_' = "RUNNING"
    /\ wpc' = [w \in Workers |-> "w_state"]
    /\ UNCHANGED <<queue_, pending_count_, close_, total_cancelled_, spc, cpc, cmode,
                   tstatus>>
    /\ UNCHANGED PStopFrame
    /\ UNCHANGED nonp

\* Pause(): RUNNING -> PAUSED
Pause ==
    /\ cpc = "idle"
    /\ state_ = "RUNNING"
    /\ state_' = "PAUSED"
    /\ UNCHANGED <<queue_, pending_count_, close_, total_cancelled_, spc, wpc, cpc,
                   cmode, tstatus>>
    /\ UNCHANGED PStopFrame
    /\ UNCHANGED nonp

\* Resume(): PAUSED -> RUNNING, pause_cv_.notify_all()
Resume ==
    /\ cpc = "idle"
    /\ state_ = "PAUSED"
    /\ state_' = "RUNNING"
    /\ UNCHANGED <<queue_, pending_count_, close_, total_cancelled_, spc, wpc, cpc,
                   cmode, tstatus>>
    /\ UNCHANGED PStopFrame
    /\ UNCHANGED nonp

\* the state the loop at the head of Stop(mode) moves state_ to
StopTarget(s, mode) ==
    IF s = "CREATED" THEN "STOPPED"
    ELSE IF s \in {"RUNNING", "PAUSED"}
    THEN (IF mode = "Graceful" THEN "SHUTTING_DOWN" ELSE "FORCE_STOPPING")
    ELSE IF s = "SHUTTING_DOWN" /\ mode # "Graceful" THEN "FORCE_STOPPING"
    ELSE s

\* Stop(mode) up to the branch on cur: the compare-exchange loop, the
\* notify_all on pause_cv_, cur = state_.load()
StopCall ==
    /\ cpc = "idle"
    /\ \E mode \in {"Graceful", "Force"} :
         LET cur == StopTarget(state_, mode) IN
         /\ cmode' = mode
         /\ state_' = cur
         /\ cpc' = IF cur = "SHUTTING_DOWN" THEN "c_submit"
                   ELSE IF cur = "FORCE_STOPPING" THEN "c_clear"
                   ELSE "done"
    /\ UNCHANGED <<queue_, pending_count_, close_, total_cancelled_, spc, wpc, tstatus>>
    /\ UNCHANGED PStopFrame
    /\ UNCHANGED nonp

\* Stop, graceful: submit_cv_.wait(lk, submit_ing_ == 0) returns
StopWaitSubmit ==
    /\ cpc = "c_submit"
    /\ submit_ing_ = 0
    /\ cpc' = "c_drain"
    /\ UNCHANGED <<state_, queue_, pending_count_, close_, total_cancelled_, spc, wpc,
                   cmode, tstatus>>
    /\ UNCHANGED PStopFrame
    /\ UNCHANGED nonp

\* Stop, graceful: drain_cv_.wait(lk, Pending() == 0 && ActiveTasks() == 0)
\* tests its predicate under drain_mtx_ and blocks when it is false
StopDrainCheck ==
    /\ cpc = "c_drain"
    /\ cpc' = IF Pending = 0 /\ ActiveTasks = 0 THEN "c_close" ELSE "c_drain_wait"
    /\ UNCHANGED <<state_, queue_, pending_count_, close_, total_cancelled_, spc, wpc,
                   cmode, tstatus>>
    /\ UNCHANGED PStopFrame
    /\ UNCHANGED nonp

\* Stop, force: queue_.Clear(visitor): one turn of its loop cancels the task it
\* popped and counts it; after the last one pending_count_.store(0) and
\* not_full_.notify_all()
StopClear ==
    /\ cpc = "c_clear"
    /\ IF queue_ # <<>>
       THEN /\ queue_' = Tail(queue_)
            /\ tstatus' = [tstatus EXCEPT ![Head(queue_)] = "cancelled"]
            /\ total_cancelled_' = total_cancelled_ + 1
            /\ UNCHANGED <<pending_count_, spc, cpc>>
       ELSE /\ pending_count_' = 0
            /\ spc' = NotifiedAllNotFull(spc)
            /\ cpc' = "c_close"
            /\ UNCHANGED <<queue_, tstatus, total_cancelled_>>
    /\ UNCHANGED <<state_, close_, wpc, cmode>>
    /\ UNCHANGED PStopFrame
    /\ UNCHANGED nonp

\* Stop: queue_.Close(): close_.store(true), notify_all on both condition
\* variables
StopClose ==
    /\ cpc = "c_close"
    /\ close_' = TRUE
    /\ NotifyAllNotEmpty(TRUE)
    /\ spc' = NotifiedAllNotFull(spc)
    /\ cpc' = "c_join"
    /\ UNCHANGED <<state_, queue_, pending_count_, total_cancelled_, cmode, tstatus>>
    /\ UNCHANGED PStopFrame
    /\ UNCHANGED nonp

\* Stop: every worker thread is joined, state_.store(STOPPED), Stop returns
StopJoin ==
    /\ cpc = "c_join"
    /\ \A w \in Workers : wpc[w] = "exited"
    /\ state_' = "STOPPED"
    /\ cpc' = "done"
    /\ UNCHANGED <<queue_, pending_count_, close_, total_cancelled_, spc, wpc, cmode,
                   tstatus>>
    /\ UNCHANGED PStopFrame
    /\ UNCHANGED nonp

\* the position of the controlling thread once the loop at the head of
\* Stop(mode) has moved state_ to cur
StopBranch(cur) ==
    IF cur = "SHUTTING_DOWN" THEN "c_submit"
    ELSE IF cur = "FORCE_STOPPING" THEN "c_clear"
    ELSE "done"

\* ShutDown(opt, timeout) up to the branch on cur inside its first Stop:
\* Graceful and Force are Stop(Graceful) and Stop(Force); Timeout computes
\* deadline = now + timeout and calls Stop(Graceful)
ShutDownCall ==
    /\ cpc = "idle"
    /\ \E opt \in {"Graceful", "Force", "Timeout"} :
         LET mode == IF opt = "Force" THEN "Force" ELSE "Graceful"
             cur == StopTarget(state_, mode) IN
         /\ copt' = opt
         /\ cmode' = mode
         /\ state_' = cur
         /\ cpc' = StopBranch(cur)
    /\ UNCHANGED <<queue_, pending_count_, close_, total_cancelled_, spc, wpc, tstatus,
                   expired>>
    /\ UNCHANGED PControlFrame
    /\ UNCHANGED nonp

\* ShutDown(Timeout): the clock reaches deadline while the call is in progress
\* and the pool is not yet STOPPED (a deadline that passes later is read by
\* nothing)
DeadlinePasses ==
    /\ copt = "Timeout"
    /\ cpc \notin {"idle", "returned"}
    /\ state_ # "STOPPED"
    /\ ~expired
    /\ expired' = TRUE
    /\ UNCHANGED <<state_, queue_, pending_count_, close_, total_cancelled_, spc, wpc,
                   cpc, cmode, copt, tstatus>>
    /\ UNCHANGED PControlFrame
    /\ UNCHANGED nonp

\* ShutDown after a Stop has returned. Graceful, Force: return. Timeout, after
\* Stop(Graceful): return if State() == STOPPED; otherwise, if now >= deadline,
\* Stop(Force), and return after it
ShutDownAfterStop ==
    /\ cpc = "done"
    /\ copt # ""
    /\ IF copt = "Timeout" /\ cmode = "Graceful" /\ state_ # "STOPPED" /\ expired
       THEN LET cur == StopTarget(state_, "Force") IN
            /\ cmode' = "Force"
            /\ state_' = cur
            /\ cpc' = StopBranch(cur)
       ELSE /\ cpc' = "returned"
            /\ UNCHANGED <<state_, cmode>>
    /\ UNCHANGED <<queue_, pending_count_, close_, total_cancelled_, spc, wpc, tstatus,
                   copt, expired>>
    /\ UNCHANGED PControlFrame
    /\ UNCHANGED nonp

ControlStep ==
    \/ Start \/ Pause \/ Resume \/ StopCall
    \/ StopWaitSubmit \/ StopDrainCheck \/ StopClear \/ StopClose \/ StopJoin

PNext ==
    \/ ControlStep
    \/ \E s \in Submitters : SubmitterStep(s)
    \/ \E w \in Workers : WorkerStep(w)

\* the controlling thread stops the pool through ShutDown
ShutDownStep ==
    \/ Start \/ Pause \/ Resume \/ ShutDownCall \/ DeadlinePasses
    \/ StopWaitSubmit \/ StopDrainCheck \/ StopClear \/ StopClose \/ StopJoin
    \/ ShutDownAfterStop

SDNext ==
    \/ ShutDownStep
    \/ \E s \in Submitters : SubmitterStep(s)
    \/ \E w \in Workers : WorkerStep(w)

\* a started pool with policy Overwrite that nobody stops
ONext ==
    \/ Start
    \/ \E s \in Submitters : OverwriteSubmitStep(s)
    \/ \E w \in Workers : WorkerRunStep(w)

(***************************************************************************)
(* The cached repositories: CachedMeetingRepository and                    *)
(* CachedUserRepository in front of the in-memory primary repositories,    *)
(* with one meeting and one user. Every call of a primary repository and   *)
(* every Redis command is one step; the primary serialises its calls under *)
(* its shared_mutex and Redis executes one command at a time. Redis is     *)
(* reachable (HasCache() holds and no command fails); a key disappears     *)
(* when a caller deletes it or when its time to live runs out.             *)
(***************************************************************************)
RepoCallers == {"r1", "r2"}
\* repository calls the callers of SpecCache make in all
MaxRepoCalls == 4

\* no record in the primary, no payload under the key, no value in the local
NoRecord == [absent |-> TRUE]
\* no call, and no write of the caller's own still to be read back
NoWrite == [op |-> "none", st |-> "", at |-> 0, pid |-> 0, ver |-> 0]

\* the record CreateMeeting is called with; ver counts the writes the primary
\* has applied to the record and is history, no field of MeetingData
NewMeeting == [state |-> "Scheduled", participants |-> <<1>>, updated_at |-> 0, ver |-> 1]
\* the record CreateUser is called with
NewUser == [last_login |-> 0, ver |-> 1]

StateToInt(st) ==
    CASE st = "Scheduled" -> 0
      [] st = "Running" -> 1
      [] st = "Ended" -> 2

IntToState(i) ==
    CASE i = 0 -> "Scheduled"
      [] i = 1 -> "Running"
      [] i = 2 -> "Ended"

\* CachedMeetingRepository::CachePut's JSON object
MeetingPayload(data) ==
    [state |-> StateToInt(data.state), updated_at |-> data.updated_at,
     participants |-> data.participants, ver |-> data.ver]

\* the MeetingData CachedMeetingRepository::CacheGet builds from the payload
MeetingFromPayload(j) ==
    [state |-> IntToState(j.state), participants |-> j.participants,
     updated_at |-> j.updated_at, ver |-> j.ver]

\* CachedUserRepository::CachePut's JSON object
UserPayload(data) == [last_login |-> data.last_login, ver |-> data.ver]

\* the UserData CachedUserRepository::CacheGet builds from the payload
UserFromPayload(j) == [last_login |-> j.last_login, ver |-> j.ver]

RepoOps ==
    {[op |-> o, st |-> "", at |-> 0, pid |-> 0, ver |-> 0] :
        o \in {"CreateMeeting", "GetMeeting", "CreateUser", "FindById", "FindByUserName"}}
    \cup {[op |-> "UpdateMeetingState", st |-> st, at |-> at, pid |-> 0, ver |-> 0] :
            st \in {"Running", "Ended"}, at \in 1..MaxTime}
    \cup {[op |-> o, st |-> "", at |-> 0, pid |-> p, ver |-> 0] :
            o \in {"AddParticipant", "RemoveParticipant"}, p \in 1..MaxRoster}
    \cup {[op |-> "UpdateLastLogin", st |-> "", at |-> at, pid |-> 0, ver |-> 0] :
            at \in 1..MaxTime}

MeetingWrites == {"UpdateMeetingState", "AddParticipant", "RemoveParticipant"}
UserReads == {"FindById", "FindByUserName"}

CInit ==
    /\ db_meeting = NoRecord
    /\ redis_meeting = NoRecord
    /\ db_user = NoRecord
    /\ redis_user_id = NoRecord
    /\ redis_user_name = NoRecord
    /\ rpc = [c \in RepoCallers |-> "idle"]
    /\ rop = [c \in RepoCallers |-> NoWrite]
    /\ rval = [c \in RepoCallers |-> NoRecord]
    /\ rres = [c \in RepoCallers |-> [op |-> "none", ok |-> FALSE, val |-> NoRecord,
                                      after |-> NoWrite]]
    /\ rwrote = [c \in RepoCallers |-> [meeting |-> NoWrite, user |-> NoWrite]]
    /\ rcalls = 0

\* the repositories while another subsystem runs
CIdle == CInit

RMeetingStore == <<db_meeting, redis_meeting>>
RUserStore == <<db_user, redis_user_id, redis_user_name>>

\* a call that is no read of an entity returns; a successful write is remembered
RReturnStatus(c, ok) ==
    /\ rpc' = [rpc EXCEPT ![c] = "idle"]
    /\ rres' = [rres EXCEPT ![c] = [op |-> rop[c].op, ok |-> ok, val |-> NoRecord,
                                    after |-> NoWrite]]
    /\ rwrote' = IF ok /\ rop[c].op \in MeetingWrites
                   THEN [rwrote EXCEPT ![c].meeting = rop[c]]
                   ELSE IF ok /\ rop[c].op = "UpdateLastLogin"
                          THEN [rwrote EXCEPT ![c].user = rop[c]]
                          ELSE rwrote

\* a read of an entity returns; a value read answers the caller's last write
RReturnValue(c, ok, val) ==
    /\ rpc' = [rpc EXCEPT ![c] = "idle"]
    /\ rres' = [rres EXCEPT ![c] =
                  [op |-> rop[c].op, ok |-> ok, val |-> val,
                   after |-> IF rop[c].op = "GetMeeting" THEN rwrote[c].meeting
                                                         ELSE rwrote[c].user]]
    /\ rwrote' = IF ~ok THEN rwrote
                 ELSE IF rop[c].op = "GetMeeting"
                        THEN [rwrote EXCEPT ![c].meeting = NoWrite]
                        ELSE [rwrote EXCEPT ![c].user = NoWrite]

\* a caller starts a repository call
RCall(c) ==
    /\ rpc[c] = "idle"
    /\ rcalls < MaxRepoCalls
    /\ \E o \in RepoOps :
         /\ rop' = [rop EXCEPT ![c] = o]
         /\ rpc' = [rpc EXCEPT ![c] =
                      IF o.op \in {"GetMeeting"} \cup UserReads THEN "cache_get"
                                                                ELSE "primary"]
    /\ rcalls' = rcalls + 1
    /\ rval' = [rval EXCEPT ![c] = NoRecord]
    /\ UNCHANGED <<RMeetingStore, RUserStore, rres, rwrote, nonc>>

\* CreateMeeting: primary_->CreateMeeting(data)
CreateMeetingPrimary(c) ==
    /\ rpc[c] = "primary"
    /\ rop[c].op = "CreateMeeting"
    /\ IF db_meeting # NoRecord
         THEN /\ RReturnStatus(c, FALSE)
              /\ UNCHANGED <<db_meeting, rval>>
         ELSE /\ db_meeting' = NewMeeting
              /\ rval' = [rval EXCEPT ![c] = NewMeeting]
              /\ rpc' = [rpc EXCEPT ![c] = "cache_put"]
              /\ UNCHANGED <<rres, rwrote>>
    /\ UNCHANGED <<redis_meeting, RUserStore, rop, rcalls, nonc>>

\* CreateMeeting and GetMeeting: CachePut(the value the primary returned)
MeetingCachePut(c) ==
    /\ rpc[c] = "cache_put"
    /\ rop[c].op \in {"CreateMeeting", "GetMeeting"}
    /\ redis_meeting' = MeetingPayload(rval[c])
    /\ IF rop[c].op = "GetMeeting"
         THEN RReturnValue(c, TRUE, rval[c])
         ELSE RReturnStatus(c, TRUE)
    /\ UNCHANGED <<db_meeting, RUserStore, rop, rval, rcalls, nonc>>

\* GetMeeting: CacheGet(meeting_id)
GetMeetingCacheGet(c) ==
    /\ rpc[c] = "cache_get"
    /\ rop[c].op = "GetMeeting"
    /\ IF redis_meeting # NoRecord
         THEN RReturnValue(c, TRUE, MeetingFromPayload(redis_meeting))
         ELSE /\ rpc' = [rpc EXCEPT ![c] = "primary"]
              /\ UNCHANGED <<rres, rwrote>>
    /\ UNCHANGED <<RMeetingStore, RUserStore, rop, rval, rcalls, nonc>>

\* GetMeeting: primary_->GetMeeting(meeting_id)
GetMeetingPrimary(c) ==
    /\ rpc[c] = "primary"
    /\ rop[c].op = "GetMeeting"
    /\ IF db_meeting = NoRecord
         THEN /\ RReturnValue(c, FALSE, NoRecord)
              /\ UNCHANGED rval
         ELSE /\ rval' = [rval EXCEPT ![c] = db_meeting]
              /\ rpc' = [rpc EXCEPT ![c] = "cache_put"]
              /\ UNCHANGED <<rres, rwrote>>
    /\ UNCHANGED <<RMeetingStore, RUserStore, rop, rcalls, nonc>>

\* a write's call of the primary: the record becomes data when the primary
\* accepts the write, and the status goes into the local
MeetingWritePrimary(c, accepted, data) ==
    /\ rpc[c] = "primary"
    /\ IF db_meeting # NoRecord /\ accepted
         THEN /\ db_meeting' = [data EXCEPT !.ver = db_meeting.ver + 1]
              /\ rop' = [rop EXCEPT ![c].ver = db_meeting.ver + 1]
              /\ rval' = [rval EXCEPT ![c] = [ok |-> TRUE]]
         ELSE /\ rval' = [rval EXCEPT ![c] = [ok |-> FALSE]]
              /\ UNCHANGED <<db_meeting, rop>>
    /\ rpc' = [rpc EXCEPT ![c] = "cache_del"]
    /\ UNCHANGED <<redis_meeting, RUserStore, rres, rwrote, rcalls, nonc>>

\* UpdateMeetingState: primary_->UpdateMeetingState(meeting_id, state, updated_at)
UpdateMeetingStatePrimary(c) ==
    /\ rop[c].op = "UpdateMeetingState"
    /\ MeetingWritePrimary(c, TRUE,
         IF db_meeting = NoRecord THEN NoRecord
         ELSE [db_meeting EXCEPT !.state = rop[c].st, !.updated_at = rop[c].at])

\* AddParticipant: primary_->AddParticipant(meeting_id, participant_id, is_organizer)
AddParticipantPrimary(c) ==
    /\ rop[c].op = "AddParticipant"
    /\ MeetingWritePrimary(c,
         db_meeting # NoRecord /\ ~SeqContains(db_meeting.participants, rop[c].pid),
         IF db_meeting = NoRecord THEN NoRecord
         ELSE [db_meeting EXCEPT !.participants = Append(@, rop[c].pid)])

\* RemoveParticipant: primary_->RemoveParticipant(meeting_id, participant_id)
RemoveParticipantPrimary(c) ==
    /\ rop[c].op = "RemoveParticipant"
    /\ MeetingWritePrimary(c,
         db_meeting # NoRecord /\ SeqContains(db_meeting.participants, rop[c].pid),
         IF db_meeting = NoRecord THEN NoRecord
         ELSE [db_meeting EXCEPT
                 !.participants = SelectSeq(@, LAMBDA p : p # rop[c].pid)])

\* the three writes: CacheDelete(meeting_id), then the primary's status is returned
MeetingCacheDelete(c) ==
    /\ rpc[c] = "cache_del"
    /\ rop[c].op \in MeetingWrites
    /\ redis_meeting' = NoRecord
    /\ RReturnStatus(c, rval[c].ok)
    /\ UNCHANGED <<db_meeting, RUserStore, rop, rval, rcalls, nonc>>

\* CreateUser: primary_->CreateUser(data)
CreateUserPrimary(c) ==
    /\ rpc[c] = "primary"
    /\ rop[c].op = "CreateUser"
    /\ IF db_user # NoRecord
         THEN /\ RReturnStatus(c, FALSE)
              /\ UNCHANGED db_user
         ELSE /\ db_user' = NewUser
              /\ rpc' = [rpc EXCEPT ![c] = "refresh"]
              /\ UNCHANGED <<rres, rwrote>>
    /\ UNCHANGED <<RMeetingStore, redis_user_id, redis_user_name, rop, rval, rcalls,
                   nonc>>

\* UpdateLastLogin: primary_->UpdateLastLogin(user_id, last_login)
UpdateLastLoginPrimary(c) ==
    /\ rpc[c] = "primary"
    /\ rop[c].op = "UpdateLastLogin"
    /\ IF db_user = NoRecord
         THEN /\ RReturnStatus(c, FALSE)
              /\ UNCHANGED <<db_user, rop>>
         ELSE /\ db_user' = [last_login |-> rop[c].at, ver |-> db_user.ver + 1]
              /\ rop' = [rop EXCEPT ![c].ver = db_user.ver + 1]
              /\ rpc' = [rpc EXCEPT ![c] = "refresh"]
              /\ UNCHANGED <<rres, rwrote>>
    /\ UNCHANGED <<RMeetingStore, redis_user_id, redis_user_name, rval, rcalls, nonc>>

\* CreateUser: primary_->FindByUserName(data.user_name); UpdateLastLogin:
\* primary_->FindById(user_id). The primary never removes a user, so the
\* record is found and the branch that deletes the keys is not taken.
UserRefresh(c) ==
    /\ rpc[c] = "refresh"
    /\ rop[c].op \in {"CreateUser", "UpdateLastLogin"}
    /\ rval' = [rval EXCEPT ![c] = db_user]
    /\ rpc' = [rpc EXCEPT ![c] = "put_id"]
    /\ UNCHANGED <<RMeetingStore, RUserStore, rop, rres, rwrote, rcalls, nonc>>

\* FindById, FindByUserName: CacheGet(key)
FindCacheGet(c) ==
    /\ rpc[c] = "cache_get"
    /\ rop[c].op \in UserReads
    /\ LET cached == IF rop[c].op = "FindById" THEN redis_user_id ELSE redis_user_name
       IN  IF cached # NoRecord
             THEN RReturnValue(c, TRUE, UserFromPayload(cached))
             ELSE /\ rpc' = [rpc EXCEPT ![c] = "primary"]
                  /\ UNCHANGED <<rres, rwrote>>
    /\ UNCHANGED <<RMeetingStore, RUserStore, rop, rval, rcalls, nonc>>

\* FindById, FindByUserName: the primary's lookup
FindPrimary(c) ==
    /\ rpc[c] = "primary"
    /\ rop[c].op \in UserReads
    /\ IF db_user = NoRecord
         THEN /\ RReturnValue(c, FALSE, NoRecord)
              /\ UNCHANGED rval
         ELSE /\ rval' = [rval EXCEPT ![c] = db_user]
              /\ rpc' = [rpc EXCEPT ![c] = "put_id"]
              /\ UNCHANGED <<rres, rwrote>>
    /\ UNCHANGED <<RMeetingStore, RUserStore, rop, rcalls, nonc>>

\* CachedUserRepository::CachePut: SetEx(KeyById(user_id), payload, ttl_seconds_)
UserCachePutId(c) ==
    /\ rpc[c] = "put_id"
    /\ redis_user_id' = UserPayload(rval[c])
    /\ rpc' = [rpc EXCEPT ![c] = "put_name"]
    /\ UNCHANGED <<RMeetingStore, db_user, redis_user_name, rop, rval, rres, rwrote,
                   rcalls, nonc>>

\* CachedUserRepository::CachePut: SetEx(KeyByName(user_name), payload,
\* ttl_seconds_), and the call returns
UserCachePutName(c) ==
    /\ rpc[c] = "put_name"
    /\ redis_user_name' = UserPayload(rval[c])
    /\ IF rop[c].op \in UserReads
         THEN RReturnValue(c, TRUE, rval[c])
         ELSE RReturnStatus(c, TRUE)
    /\ UNCHANGED <<RMeetingStore, db_user, redis_user_id, rop, rval, rcalls, nonc>>

\* the time to live SetEx gave a key runs out
RedisExpire ==
    /\ \/ /\ redis_meeting # NoRecord
          /\ redis_meeting' = NoRecord
          /\ UNCHANGED <<redis_user_id, redis_user_name>>
       \/ /\ redis_user_id # NoRecord
          /\ redis_user_id' = NoRecord
          /\ UNCHANGED <<redis_meeting, redis_user_name>>
       \/ /\ redis_user_name # NoRecord
          /\ redis_user_name' = NoRecord
          /\ UNCHANGED <<redis_meeting, redis_user_id>>
    /\ UNCHANGED <<db_meeting, db_user, rpc, rop, rval, rres, rwrote, rcalls, nonc>>

RepoStep(c) ==
    \/ RCall(c)
    \/ CreateMeetingPrimary(c)
    \/ MeetingCachePut(c)
    \/ GetMeetingCacheGet(c)
    \/ GetMeetingPrimary(c)
    \/ UpdateMeetingStatePrimary(c)
    \/ AddParticipantPrimary(c)
    \/ RemoveParticipantPrimary(c)
    \/ MeetingCacheDelete(c)
    \/ CreateUserPrimary(c)
    \/ UpdateLastLoginPrimary(c)
    \/ UserRefresh(c)
    \/ FindCacheGet(c)
    \/ FindPrimary(c)
    \/ UserCachePutId(c)
    \/ UserCachePutName(c)

CNext ==
    \/ \E c \in RepoCallers : RepoStep(c)
    \/ RedisExpire

(***************************************************************************)
(* The cached session repository: CachedSessionRepository in front of the  *)
(* in-memory primary, with one token. SessionManager::GenerateToken draws  *)
(* a fresh random token for every session and hands it out when            *)
(* CreateSession has returned, so the token is created once and is         *)
(* validated and deleted only after its creation has returned.             *)
(* The callers, their positions and their results are those of the cached  *)
(* repositories above.                                                     *)
(***************************************************************************)
\* last second the clock of SpecSession reaches
MaxSessTime == 2

\* CachedSessionRepository::CachePut's JSON object
SessionPayload(record) == [user_id |-> record.user_id, expires_at |-> record.expires_at]

\* the SessionRecord CachedSessionRepository::CacheGet builds from the payload
SessionFromPayload(j) == [user_id |-> j.user_id, expires_at |-> j.expires_at]

\* the repositories' test of a record against the clock
SessionExpired(rec) == rec.expires_at # 0 /\ rec.expires_at < snow

SInit ==
    /\ snow = 0
    /\ db_session = NoRecord
    /\ redis_session = NoRecord
    /\ slife = "none"

\* a session call returns; late tells that the call began after a
\* DeleteSession of the token had returned OK
SReturn(c, ok, val) ==
    /\ rpc' = [rpc EXCEPT ![c] = "idle"]
    /\ rres' = [rres EXCEPT ![c] = [op |-> rop[c].op, ok |-> ok, val |-> val,
                                    start |-> rop[c].start, late |-> rop[c].late]]

\* a caller starts a session call
SessionCall(c) ==
    /\ rpc[c] = "idle"
    /\ rcalls < MaxRepoCalls
    /\ \E o \in {"CreateSession", "ValidateSession", "DeleteSession"},
          e \in 1..MaxSessTime :
         /\ o = "CreateSession" => slife = "none" /\ e > snow
         /\ o # "CreateSession" => e = 1 /\ slife \in {"created", "deleted"}
         /\ rop' = [rop EXCEPT ![c] = [op |-> o, expires_at |-> e, start |-> snow,
                                       late |-> (slife = "deleted")]]
         /\ rpc' = [rpc EXCEPT ![c] = IF o = "ValidateSession" THEN "cache_get"
                                                               ELSE "primary"]
         /\ slife' = IF o = "CreateSession" THEN "creating" ELSE slife
    /\ rcalls' = rcalls + 1
    /\ rval' = [rval EXCEPT ![c] = NoRecord]
    /\ UNCHANGED <<snow, db_session, redis_session, rres, nons>>

\* a second passes
SessionTick ==
    /\ snow < MaxSessTime
    /\ snow' = snow + 1
    /\ UNCHANGED <<db_session, redis_session, slife, rpc, rop, rval, rres, rcalls, nons>>

\* Redis removes the key when the time to live SetEx gave it has run out:
\* expires_at - now seconds after the SetEx, that is during second expires_at
SessionKeyExpire ==
    /\ redis_session # NoRecord
    /\ snow >= redis_session.expires_at
    /\ redis_session' = NoRecord
    /\ UNCHANGED <<snow, db_session, slife, rpc, rop, rval, rres, rcalls, nons>>

\* Redis drops the key before its time to live has run out (eviction under
\* its memory limit, a restart of the Redis server); the sessions of the
\* primary outlive the cache, and ValidateSession backfills for this case
SessionKeyEvict ==
    /\ redis_session # NoRecord
    /\ snow < redis_session.expires_at
    /\ redis_session' = NoRecord
    /\ UNCHANGED <<snow, db_session, slife, rpc, rop, rval, rres, rcalls, nons>>

\* CreateSession: primary_->CreateSession(record)
CreateSessionPrimary(c) ==
    /\ rpc[c] = "primary"
    /\ rop[c].op = "CreateSession"
    /\ db_session' = [user_id |-> 1, expires_at |-> rop[c].expires_at]
    /\ rval' = [rval EXCEPT ![c] = [user_id |-> 1, expires_at |-> rop[c].expires_at]]
    /\ rpc' = [rpc EXCEPT ![c] = "cache_put"]
    /\ UNCHANGED <<snow, redis_session, slife, rop, rres, rcalls, nons>>

\* CreateSession and ValidateSession: CachePut(record), nothing stored when
\* the time to live would not be positive
SessionCachePut(c) ==
    /\ rpc[c] = "cache_put"
    /\ rop[c].op \in {"CreateSession", "ValidateSession"}
    /\ LET ttl == IF rval[c].expires_at > 0 THEN rval[c].expires_at - snow ELSE 0
       IN  redis_session' = IF ttl <= 0 THEN redis_session ELSE SessionPayload(rval[c])
    /\ SReturn(c, TRUE, IF rop[c].op = "ValidateSession" THEN rval[c] ELSE NoRecord)
    /\ slife' = IF rop[c].op = "CreateSession" THEN "created" ELSE slife
    /\ UNCHANGED <<snow, db_session, rop, rval, rcalls, nons>>

\* ValidateSession: CacheGet(token). A key whose time to live has run out is
\* absent; a payload that is expired by the clock is deleted and reported
\* Unauthenticated, and the call goes on to the primary as after a miss.
ValidateCacheGet(c) ==
    /\ rpc[c] = "cache_get"
    /\ rop[c].op = "ValidateSession"
    /\ IF redis_session # NoRecord /\ snow <= redis_session.expires_at
         THEN IF SessionExpired(SessionFromPayload(redis_session))
                THEN /\ redis_session' = NoRecord
                     /\ rpc' = [rpc EXCEPT ![c] = "primary"]
                     /\ UNCHANGED rres
                ELSE /\ SReturn(c, TRUE, SessionFromPayload(redis_session))
                     /\ UNCHANGED redis_session
         ELSE /\ rpc' = [rpc EXCEPT ![c] = "primary"]
              /\ UNCHANGED <<redis_session, rres>>
    /\ UNCHANGED <<snow, db_session, slife, rop, rval, rcalls, nons>>

\* ValidateSession: primary_->ValidateSession(token)
ValidatePrimary(c) ==
    /\ rpc[c] = "primary"
    /\ rop[c].op = "ValidateSession"
    /\ IF db_session = NoRecord \/ SessionExpired(db_session)
         THEN /\ SReturn(c, FALSE, NoRecord)
              /\ UNCHANGED rval
         ELSE /\ rval' = [rval EXCEPT ![c] = db_session]
              /\ rpc' = [rpc EXCEPT ![c] = "cache_put"]
              /\ UNCHANGED rres
    /\ UNCHANGED <<snow, db_session, redis_session, slife, rop, rcalls, nons>>

\* DeleteSession: primary_->DeleteSession(token)
DeleteSessionPrimary(c) ==
    /\ rpc[c] = "primary"
    /\ rop[c].op = "DeleteSession"
    /\ rval' = [rval EXCEPT ![c] = [ok |-> db_session # NoRecord]]
    /\ db_session' = NoRecord
    /\ rpc' = [rpc EXCEPT ![c] = "cache_del"]
    /\ UNCHANGED <<snow, redis_session, slife, rop, rres, rcalls, nons>>

\* DeleteSession: CacheDelete(token), then the primary's status is returned
SessionCacheDelete(c) ==
    /\ rpc[c] = "cache_del"
    /\ rop[c].op = "DeleteSession"
    /\ redis_session' = NoRecord
    /\ SReturn(c, rval[c].ok, NoRecord)
    /\ slife' = IF rval[c].ok THEN "deleted" ELSE slife
    /\ UNCHANGED <<snow, db_session, rop, rval, rcalls, nons>>

SessionStep(c) ==
    \/ SessionCall(c)
    \/ CreateSessionPrimary(c)
    \/ SessionCachePut(c)
    \/ ValidateCacheGet(c)
    \/ ValidatePrimary(c)
    \/ DeleteSessionPrimary(c)
    \/ SessionCacheDelete(c)

SNext ==
    \/ \E c \in RepoCallers : SessionStep(c)
    \/ SessionTick
    \/ SessionKeyExpire
    \/ SessionKeyEvict

(***************************************************************************)
(* The in-memory user repository: concurrent CreateUser calls, as the      *)
(* registrations of UserManager make them. The body of CreateUser runs     *)
(* under the unique_lock of the repository's shared_mutex and is one step. *)
(***************************************************************************)
UserNames == {"alice", "bob"}
\* CreateUser calls the callers of SpecUser make in all
MaxRegs == 4

UInit ==
    /\ users_by_user_name_ = [n \in UserNames |-> NoRecord]
    /\ users_by_id_ = [i \in 1..MaxRegs |-> NoRecord]
    /\ next_numeric_id_ = 1
    /\ ureg = {}

\* a registration builds its UserData: a fresh user_id (GenerateUserId), the
\* user_name asked for, the caller's own profile data, numeric_id not set
UserCreateCall(c) ==
    /\ rpc[c] = "idle"
    /\ rcalls < MaxRegs
    /\ \E n \in UserNames :
         rop' = [rop EXCEPT ![c] =
                   [op |-> "CreateUser",
                    data |-> [user_id |-> rcalls + 1, user_name |-> n, email |-> c,
                              numeric_id |-> 0],
                    conc |-> \E d \in RepoCallers : rpc[d] # "idle"]]
    /\ rpc' = [rpc EXCEPT ![c] = "create"]
    /\ rcalls' = rcalls + 1
    /\ UNCHANGED <<uvars, rval, rres, nonu>>

\* CreateUser without the test of users_by_user_name_: every call stores
UserCreateNoCheck(c) ==
    /\ rpc[c] = "create"
    /\ LET data == rop[c].data
           stored == [data EXCEPT !.numeric_id = next_numeric_id_]
       IN  /\ next_numeric_id_' = next_numeric_id_ + 1
           /\ users_by_user_name_' =
                [users_by_user_name_ EXCEPT ![stored.user_name] = stored]
           /\ users_by_id_' = [users_by_id_ EXCEPT ![stored.user_id] = stored]
           /\ ureg' = ureg \cup {[data |-> data, conc |-> rop[c].conc, code |-> "OK",
                                  before |-> users_by_user_name_[data.user_name],
                                  after |-> stored]}
           /\ rres' = [rres EXCEPT ![c] =
                         [op |-> "CreateUser", ok |-> TRUE, val |-> NoRecord]]
    /\ rpc' = [rpc EXCEPT ![c] = "idle"]
    /\ UNCHANGED <<rop, rval, rcalls, nonu>>

\* InMemoryUserRepository::CreateUser
UserCreate(c) ==
    /\ rpc[c] = "create"
    /\ LET data == rop[c].data
           stored == IF data.numeric_id = 0
                       THEN [data EXCEPT !.numeric_id = next_numeric_id_]
                       ELSE data
           exists == users_by_user_name_[data.user_name] # NoRecord
       IN  /\ IF exists
                THEN UNCHANGED <<users_by_user_name_, users_by_id_, next_numeric_id_>>
                ELSE /\ next_numeric_id_' = IF data.numeric_id = 0
                                              THEN next_numeric_id_ + 1
                                              ELSE next_numeric_id_
                     /\ users_by_user_name_' =
                          [users_by_user_name_ EXCEPT ![stored.user_name] = stored]
                     /\ users_by_id_' = [users_by_id_ EXCEPT ![stored.user_id] = stored]
           /\ ureg' = ureg \cup {[data |-> data, conc |-> rop[c].conc,
                                  code |-> IF exists THEN "AlreadyExists" ELSE "OK",
                                  before |-> users_by_user_name_[data.user_name],
                                  after |-> users_by_user_name_'[data.user_name]]}
           /\ rres' = [rres EXCEPT ![c] =
                         [op |-> "CreateUser", ok |-> ~exists, val |-> NoRecord]]
    /\ rpc' = [rpc EXCEPT ![c] = "idle"]
    /\ UNCHANGED <<rop, rval, rcalls, nonu>>

UNext == \E c \in RepoCallers : UserCreateCall(c) \/ UserCreate(c)

(***************************************************************************)
(* The meeting service: the RPC handlers of MeetingServiceImpl resolve the *)
(* session token to a user id and hand the command to the meeting manager. *)
(* The handlers are taken one request at a time here; the interleavings of *)
(* the manager's calls are those of SpecMeeting. A token is the sequence   *)
(* of its characters.                                                      *)
(***************************************************************************)
Tokens == {<<>>, <<"a">>, <<"2">>, <<"3">>, <<"2", "a">>}
\* the tokens a login issues a session for, and the user each is bound to
SessionTokens == {<<"a">>, <<"2">>}
SessionUser(token) == IF token = <<"a">> THEN 1 ELSE 3

DigitValue(ch) ==
    CASE ch = "0" -> 0 [] ch = "1" -> 1 [] ch = "2" -> 2 [] ch = "3" -> 3
      [] ch = "4" -> 4 [] ch = "5" -> 5 [] ch = "6" -> 6 [] ch = "7" -> 7
      [] ch = "8" -> 8 [] ch = "9" -> 9 [] OTHER -> -1

\* std::from_chars(first, last, value) in base 10: the longest prefix of digits
\* is converted; ptr tells how many characters it took, ec whether it took none
RECURSIVE DigitPrefixLen(_)
DigitPrefixLen(tok) ==
    IF tok = <<>> \/ DigitValue(Head(tok)) < 0 THEN 0
    ELSE 1 + DigitPrefixLen(Tail(tok))

RECURSIVE DecimalValue(_)
DecimalValue(digits) ==
    IF digits = <<>> THEN 0
    ELSE 10 * DecimalValue(SubSeq(digits, 1, Len(digits) - 1))
           + DigitValue(digits[Len(digits)])

FromChars(tok) ==
    [ptr |-> DigitPrefixLen(tok),
     ec |-> DigitPrefixLen(tok) = 0,
     value |-> DecimalValue(SubSeq(tok, 1, DigitPrefixLen(tok)))]

\* InMemorySessionRepository::ValidateSession as the service sees it
SvcValidate(token) ==
    IF svc_sessions[token] # 0
      THEN [status |-> "OK", user |-> svc_sessions[token]]
      ELSE [status |-> "Unauthenticated", user |-> 0]

\* ResolveUserId(token, repo, allow_numeric_fallback), repo not null
ResolveUserId(token, allow_numeric_fallback) ==
    LET session == SvcValidate(token)
        parsed == FromChars(token)
    IN  IF session.status = "OK" THEN session
        ELSE IF ~allow_numeric_fallback THEN session
        ELSE IF token = <<>> THEN [status |-> "InvalidArgument", user |-> 0]
        ELSE IF parsed.ec \/ parsed.ptr # Len(token)
               THEN [status |-> "InvalidArgument", user |-> 0]
        ELSE [status |-> "OK", user |-> parsed.value]

VConstructed ==
    /\ svc_sessions = [t \in Tokens |-> 0]
    /\ svc_last = [token |-> <<>>, status |-> "none", user |-> 0]

VInit == VConstructed /\ mysql_enabled \in BOOLEAN

\* the service of the other specifications: MySQL is off by default
VIdle == VConstructed /\ mysql_enabled = FALSE

\* a login stores a session in the session store the service validates
\* against; with MySQL off the service has an in-memory repository of its own
\* that nothing writes to
ServiceLogin ==
    /\ mysql_enabled
    /\ \E t \in SessionTokens :
         /\ svc_sessions[t] = 0
         /\ svc_sessions' = [svc_sessions EXCEPT ![t] = SessionUser(t)]
    /\ UNCHANGED <<mysql_enabled, svc_last, mvars, nonv>>

\* MeetingServiceImpl::CreateMeeting, JoinMeeting, LeaveMeeting, EndMeeting up
\* to the call of the manager
ServiceCall(c) ==
    /\ \A d \in MCallers : mpc[d] = "idle"
    /\ mcalls < MaxCalls
    /\ mcalls' = mcalls + 1
    /\ \E op \in {"create", "join", "leave", "end"}, token \in Tokens,
          mid \in MeetingIds \cup {""} :
         LET user_or == ResolveUserId(token, ~mysql_enabled) IN
         /\ op = "create" => mid = ""
         /\ svc_last' = [token |-> token, status |-> user_or.status,
                         user |-> user_or.user]
         /\ IF user_or.status # "OK"
              THEN /\ mresult' = user_or.status
                   /\ UNCHANGED <<mpc, mcmd>>
              ELSE /\ mpc' = [mpc EXCEPT ![c] = op]
                   /\ mcmd' = [mcmd EXCEPT ![c] =
                                 [op |-> op, meeting_id |-> mid, user |-> user_or.user]]
                   /\ UNCHANGED mresult
    /\ UNCHANGED <<config_, meetings_, now, mlocal, mysql_enabled, svc_sessions, nonv>>

VNext ==
    \/ ServiceLogin
    \/ \E c \in MCallers :
        \/ ServiceCall(c)
        \/ CreateMeeting(c) \/ CreateAddOrganizer(c)
        \/ JoinMeeting(c) \/ JoinAddParticipant(c) \/ JoinUpdateState(c)
        \/ LeaveMeeting(c) \/ LeaveRemoveParticipant(c) \/ LeaveListParticipants(c)
        \/ LeaveUpdateState(c)
        \/ EndMeeting(c) \/ EndUpdateState(c)

(***************************************************************************)
(* The server registry. Register, Unregister and List each run under       *)
(* mutex_ and are one step. A NodeInfo is known by host, port and region,  *)
(* which is also all that a path /meeting/servers/<region>/<host>:<port>   *)
(* keeps of it. A ZooKeeper request made through the handle succeeds only  *)
(* while the ensemble answers and may fail even then (connection loss);    *)
(* the code looks at the return code of some requests and not of others.   *)
(***************************************************************************)
SelfNode == [host |-> "h1", port |-> 1, region |-> "default"]
EdgeNode == [host |-> "h1", port |-> 2, region |-> "eu"]
\* a node another process keeps registered in ZooKeeper
PeerNode == [host |-> "h2", port |-> 1, region |-> "default"]
\* the nodes this process registers
OwnNodes == {SelfNode, EdgeNode}
Regions == {"", "default", "eu"}
\* the longest in-memory list kept
MaxNodes == 3

NoOp == [op |-> "none"]

SeqRange(s) == {s[i] : i \in 1..Len(s)}
\* the orders in which a set of children may come back
Orderings(S) == {s \in [1..Cardinality(S) -> S] : SeqRange(s) = S}
\* the NodeInfo equality the code uses in Unregister
SameNode(a, b) == a.host = b.host /\ a.port = b.port /\ a.region = b.region
\* std::remove_if over nodes_
RECURSIVE EraseNode(_, _)
EraseNode(s, n) ==
    IF s = <<>> THEN <<>>
    ELSE IF SameNode(Head(s), n) THEN EraseNode(Tail(s), n)
    ELSE <<Head(s)>> \o EraseNode(Tail(s), n)
\* the loop of List over nodes_
RECURSIVE FilterRegion(_, _)
FilterRegion(s, region) ==
    IF s = <<>> THEN <<>>
    ELSE IF Head(s).region = region THEN <<Head(s)>> \o FilterRegion(Tail(s), region)
    ELSE FilterRegion(Tail(s), region)

\* the constructor: enabled_ tells whether ZooKeeper hosts are configured
GConstructed(configured) ==
    /\ enabled_ = configured
    /\ zk_ = FALSE
    /\ nodes_ = <<>>
    /\ gop = NoOp
    /\ gregd = {}

GInit ==
    /\ \E configured \in BOOLEAN : GConstructed(configured)
    /\ zk_up \in BOOLEAN
    /\ zk_tree \in SUBSET {PeerNode}

GIdle == GConstructed(FALSE) /\ zk_up = FALSE /\ zk_tree = {}

\* Register: nothing when disabled; a failed connection disables the registry;
\* the node is pushed to nodes_ when its path was created or exists already
RegistryRegister(n) ==
    /\ Len(nodes_) < MaxNodes
    /\ gop' = [op |-> "Register", node |-> n]
    /\ gregd' = gregd \cup {n}
    /\ IF ~enabled_
         THEN UNCHANGED <<enabled_, zk_, nodes_, zk_tree>>
         ELSE IF ~zk_ /\ ~zk_up
         THEN /\ enabled_' = FALSE
              /\ UNCHANGED <<zk_, nodes_, zk_tree>>
         ELSE /\ zk_' = TRUE
              /\ UNCHANGED enabled_
              /\ \E ok \in {b \in BOOLEAN : b => zk_up} :
                   IF ok
                     THEN /\ zk_tree' = zk_tree \cup {n}
                          /\ nodes_' = Append(nodes_, n)
                     ELSE UNCHANGED <<nodes_, zk_tree>>
    /\ UNCHANGED <<zk_up, nong>>

\* Unregister: nothing when disabled; the path is deleted through the handle
\* and the return code of the delete is not looked at; nodes_ loses the node
RegistryUnregister(n) ==
    /\ gop' = [op |-> "Unregister", node |-> n]
    /\ gregd' = gregd \ {n}
    /\ IF ~enabled_
         THEN UNCHANGED <<nodes_, zk_tree>>
         ELSE /\ nodes_' = EraseNode(nodes_, n)
              /\ IF zk_
                   THEN \E ok \in {b \in BOOLEAN : b => zk_up} :
                          zk_tree' = IF ok THEN zk_tree \ {n} ELSE zk_tree
                   ELSE UNCHANGED zk_tree
    /\ UNCHANGED <<enabled_, zk_, zk_up, nong>>

\* what List returns from nodes_ when the registry is disabled or unconnected
ListLocal(region) ==
    IF region = "" THEN nodes_
    ELSE IF FilterRegion(nodes_, region) = <<>> THEN nodes_
    ELSE FilterRegion(nodes_, region)

\* the children of the region's path, each parsed back into a NodeInfo
ListChildren(region) ==
    {n \in zk_tree : n.region = (IF region = "" THEN "default" ELSE region)}

\* List: the in-memory list when disabled or unconnected, else the children
\* ZooKeeper returns, and nodes_ when there are none or the request failed
RegistryList(region) ==
    /\ \E result \in
            IF ~enabled_ \/ ~zk_ THEN {ListLocal(region)}
            ELSE {nodes_} \cup
                 (IF zk_up
                    THEN IF ListChildren(region) = {} THEN {nodes_}
                         ELSE Orderings(ListChildren(region))
                    ELSE {}) :
         gop' = [op |-> "List", region |-> region, result |-> result]
    /\ UNCHANGED <<enabled_, zk_, nodes_, zk_tree, zk_up, gregd, nong>>

\* the ensemble stops or starts answering
ZkAvailability ==
    /\ zk_up' = ~zk_up
    /\ UNCHANGED <<enabled_, zk_, nodes_, zk_tree, gop, gregd, nong>>

\* another process registers or unregisters its own node
ZkPeer ==
    /\ zk_up
    /\ zk_tree' = IF PeerNode \in zk_tree THEN zk_tree \ {PeerNode}
                  ELSE zk_tree \cup {PeerNode}
    /\ UNCHANGED <<enabled_, zk_, nodes_, zk_up, gop, gregd, nong>>

GNext ==
    \/ \E n \in OwnNodes : RegistryRegister(n)
    \/ \E n \in OwnNodes : RegistryUnregister(n)
    \/ \E region \in Regions : RegistryList(region)
    \/ ZkAvailability
    \/ ZkPeer

(***************************************************************************)
(* The MySQL connection pool: client threads take a Lease with Acquire and *)
(* give the connection back when the Lease is destroyed. What Acquire and  *)
(* Return do under mutex_ is one step each; Connection::Create and         *)
(* mysql_ping run without the mutex. A connection is known by the number   *)
(* it got when it was created.                                             *)
(***************************************************************************)
PoolClients == {"k1", "k2", "k3"}
\* options_.pool_size
PoolSize == 2
\* connections Connection::Create makes in all; later creations fail
MaxConns == 4

KInit ==
    /\ connections_ = <<>>
    /\ total_connections_ = 0
    /\ kpc = [t \in PoolClients |-> "idle"]
    /\ kconn = [t \in PoolClients |-> 0]
    /\ knext = 1

\* Acquire under mutex_: an idle connection, or room for a new one, or the wait
AcquireEnter(t) ==
    /\ kpc[t] = "idle"
    /\ IF connections_ # <<>>
         THEN /\ kconn' = [kconn EXCEPT ![t] = Head(connections_)]
              /\ connections_' = Tail(connections_)
              /\ kpc' = [kpc EXCEPT ![t] = "leased"]
              /\ UNCHANGED total_connections_
         ELSE IF total_connections_ < PoolSize
         THEN /\ total_connections_' = total_connections_ + 1
              /\ kpc' = [kpc EXCEPT ![t] = "creating"]
              /\ UNCHANGED <<connections_, kconn>>
         ELSE /\ kpc' = [kpc EXCEPT ![t] = "waiting"]
              /\ UNCHANGED <<connections_, total_connections_, kconn>>
    /\ UNCHANGED <<knext, nonk>>

\* Acquire: CreateConnection() succeeded, the Lease is built
AcquireCreated(t) ==
    /\ kpc[t] = "creating"
    /\ knext <= MaxConns
    /\ kconn' = [kconn EXCEPT ![t] = knext]
    /\ knext' = knext + 1
    /\ kpc' = [kpc EXCEPT ![t] = "leased"]
    /\ UNCHANGED <<connections_, total_connections_, nonk>>

\* Acquire: CreateConnection() failed, the counter is taken back under mutex_
AcquireCreateFailed(t) ==
    /\ kpc[t] = "creating"
    /\ total_connections_' = total_connections_ - 1
    /\ kpc' = [kpc EXCEPT ![t] = "idle"]
    /\ UNCHANGED <<connections_, kconn, knext, nonk>>

\* Acquire: cv_.wait_for returned with an idle connection in the queue
AcquireWaitTake(t) ==
    /\ kpc[t] = "waiting"
    /\ connections_ # <<>>
    /\ kconn' = [kconn EXCEPT ![t] = Head(connections_)]
    /\ connections_' = Tail(connections_)
    /\ kpc' = [kpc EXCEPT ![t] = "leased"]
    /\ UNCHANGED <<total_connections_, knext, nonk>>

\* Acquire: cv_.wait_for timed out with the queue empty
AcquireWaitTimeout(t) ==
    /\ kpc[t] = "waiting"
    /\ connections_ = <<>>
    /\ kpc' = [kpc EXCEPT ![t] = "idle"]
    /\ UNCHANGED <<connections_, total_connections_, kconn, knext, nonk>>

\* ~Lease calls Return: mysql_ping tells whether the connection is alive
ReturnPing(t) ==
    /\ kpc[t] = "leased"
    /\ \E alive \in BOOLEAN :
         kpc' = [kpc EXCEPT ![t] = IF alive THEN "push" ELSE "discard"]
    /\ UNCHANGED <<connections_, total_connections_, kconn, knext, nonk>>

\* Return that drops a broken connection and keeps the counter as it is
ReturnDiscardNoDecrement(t) ==
    /\ kpc[t] = "discard"
    /\ kconn' = [kconn EXCEPT ![t] = 0]
    /\ kpc' = [kpc EXCEPT ![t] = "idle"]
    /\ UNCHANGED <<connections_, total_connections_, knext, nonk>>

\* Return: the broken connection is dropped and the counter decremented
ReturnDiscard(t) ==
    /\ kpc[t] = "discard"
    /\ total_connections_' = total_connections_ - 1
    /\ kconn' = [kconn EXCEPT ![t] = 0]
    /\ kpc' = [kpc EXCEPT ![t] = "idle"]
    /\ UNCHANGED <<connections_, knext, nonk>>

\* Return: the connection goes to the back of the idle queue
ReturnPush(t) ==
    /\ kpc[t] = "push"
    /\ connections_' = Append(connections_, kconn[t])
    /\ kconn' = [kconn EXCEPT ![t] = 0]
    /\ kpc' = [kpc EXCEPT ![t] = "idle"]
    /\ UNCHANGED <<total_connections_, knext, nonk>>

KNext ==
    \E t \in PoolClients :
        \/ AcquireEnter(t)
        \/ AcquireCreated(t)
        \/ AcquireCreateFailed(t)
        \/ AcquireWaitTake(t)
        \/ AcquireWaitTimeout(t)
        \/ ReturnPing(t)
        \/ ReturnDiscard(t)
        \/ ReturnPush(t)

(***************************************************************************)
(* The BlockingQueueAdapter on its own, used by several producer and       *)
(* consumer threads at once. The ring is the FIFO queue_ with capacity_    *)
(* cells, as in the pool; each step is one atomic access of the ring, of   *)
(* pending_count_ or of a mutex, and a notification is part of the step    *)
(* that makes it. The adapter is never closed here, so a test of Closed()  *)
(* is made within the step it precedes. A thread blocked in a              *)
(* condition_variable::wait leaves it only when it is notified.            *)
(***************************************************************************)
AProducers == {"ap1", "ap2"}
AConsumers == {"ac1", "ac2"}
AThreads == AProducers \cup AConsumers
\* adapter calls made in all
MaxAdapterCalls == 4

ANoResult == [op |-> "none", ok |-> FALSE, item |-> NoElem, overwritten |-> NoElem]

AInit ==
    /\ apc = [t \in AThreads |-> "idle"]
    /\ aop = [t \in AThreads |-> ""]
    /\ aitem = [t \in AThreads |-> NoElem]
    /\ aover = [t \in AThreads |-> NoElem]
    /\ ares = [t \in AThreads |-> ANoResult]
    /\ apushes = 0
    /\ acalls = 0

\* the pool's variables that the adapter's own steps never touch
PNotAdapter == <<state_, policy_, close_, overwrite_cnt_, soverwritten, submit_ing_,
                 active_tasks_, total_submitted_, total_completed_, total_failed_,
                 total_cancelled_, total_rejected_, spc, skind, stasks, spushed,
                 swaited, sres, wpc, wtask, cpc, cmode, copt, expired, tstatus,
                 taccepted, ntasks>>
nona == <<qvars, tvars, mvars, cvars, svars, uvars, vvars, kvars, gvars, lvars,
          PNotAdapter>>

\* apc after not_empty_.notify_one(), not_full_.notify_one() and
\* not_full_.notify_all(): a woken thread goes back to taking its mutex
ANotified(pc, waiting, lock) ==
    IF \A t \in AThreads : pc[t] # waiting THEN {pc}
    ELSE {[pc EXCEPT ![t] = lock] : t \in {u \in AThreads : pc[u] = waiting}}
ANotEmptyNotifyOne(pc) == ANotified(pc, "w_waiting", "w_lock")
ANotFullNotifyOne(pc) == ANotified(pc, "a_waiting", "a_lock")
ANotFullNotifyAll(pc) ==
    [t \in AThreads |-> IF pc[t] = "a_waiting" THEN "a_lock" ELSE pc[t]]

\* the call of t returns
AReturned(t, ok, overwritten) ==
    /\ ares' = [ares EXCEPT ![t] = [op |-> aop[t], ok |-> ok,
                                    item |-> IF ok THEN aitem[t] ELSE NoElem,
                                    overwritten |-> overwritten]]
    /\ aop' = [aop EXCEPT ![t] = ""]
    /\ aitem' = [aitem EXCEPT ![t] = NoElem]
    /\ aover' = [aover EXCEPT ![t] = NoElem]

AGoto(t, pc) ==
    /\ apc' = [apc EXCEPT ![t] = pc]
    /\ UNCHANGED <<aop, aitem, aover, ares>>

\* TryPush(T&&), WaitPush(T&&) or OverwritePush is called with a new item
APushCall(t, ops) ==
    /\ t \in AProducers
    /\ apc[t] = "idle"
    /\ acalls < MaxAdapterCalls
    /\ \E op \in ops :
         /\ aop' = [aop EXCEPT ![t] = op]
         /\ apc' = [apc EXCEPT ![t] = IF op = "OverwritePush" THEN "o_try" ELSE "a_try"]
    /\ aitem' = [aitem EXCEPT ![t] = apushes + 1]
    /\ apushes' = apushes + 1
    /\ acalls' = acalls + 1
    /\ UNCHANGED <<queue_, pending_count_, push_mutex_, pop_mutex_, overwrite_mutex_,
                   aover, ares, nona>>

\* TryPush, WaitPush: the lock-free enqueue; on a full ring TryPush returns
\* false and WaitPush goes on to lock push_mutex_
APushTry(t) ==
    /\ apc[t] = "a_try"
    /\ IF close_
         THEN /\ apc' = [apc EXCEPT ![t] = "idle"]
              /\ AReturned(t, FALSE, NoElem)
              /\ UNCHANGED queue_
         ELSE IF Len(queue_) < capacity_
         THEN /\ queue_' = Append(queue_, aitem[t])
              /\ AGoto(t, "a_count")
         ELSE IF aop[t] = "WaitPush"
         THEN /\ AGoto(t, "a_lock")
              /\ UNCHANGED queue_
         ELSE /\ apc' = [apc EXCEPT ![t] = "idle"]
              /\ AReturned(t, FALSE, NoElem)
              /\ UNCHANGED queue_
    /\ UNCHANGED <<pending_count_, push_mutex_, pop_mutex_, overwrite_mutex_,
                   apushes, acalls, nona>>

\* TryPush, WaitPush: prev = pending_count_.fetch_add(1); if (prev == 0)
\* not_empty_.notify_one(); return true
APushCount(t) ==
    /\ apc[t] = "a_count"
    /\ pending_count_' = pending_count_ + 1
    /\ apc' \in IF pending_count_ = 0
                  THEN ANotEmptyNotifyOne([apc EXCEPT ![t] = "idle"])
                  ELSE {[apc EXCEPT ![t] = "idle"]}
    /\ AReturned(t, TRUE, NoElem)
    /\ UNCHANGED <<queue_, push_mutex_, pop_mutex_, overwrite_mutex_,
                   apushes, acalls, nona>>

\* WaitPush: std::unique_lock lk(push_mutex_), also on the way out of wait
APushLock(t) ==
    /\ apc[t] = "a_lock"
    /\ push_mutex_ = ""
    /\ push_mutex_' = t
    /\ AGoto(t, "a_stry")
    /\ UNCHANGED <<queue_, pending_count_, pop_mutex_, overwrite_mutex_,
                   apushes, acalls, nona>>

\* WaitPush under push_mutex_: if (Closed()) return false; try_push_value()
APushSlowTry(t) ==
    /\ apc[t] = "a_stry"
    /\ IF close_
         THEN /\ push_mutex_' = ""
              /\ apc' = [apc EXCEPT ![t] = "idle"]
              /\ AReturned(t, FALSE, NoElem)
              /\ UNCHANGED queue_
         ELSE IF Len(queue_) < capacity_
         THEN /\ queue_' = Append(queue_, aitem[t])
              /\ AGoto(t, "a_scount")
              /\ UNCHANGED push_mutex_
         ELSE /\ AGoto(t, "a_enter")
              /\ UNCHANGED <<queue_, push_mutex_>>
    /\ UNCHANGED <<pending_count_, pop_mutex_, overwrite_mutex_, apushes, acalls, nona>>

\* WaitPush: not_full_.wait(lk) releases push_mutex_ and blocks
APushWait(t) ==
    /\ apc[t] = "a_enter"
    /\ push_mutex_' = ""
    /\ AGoto(t, "a_waiting")
    /\ UNCHANGED <<queue_, pending_count_, pop_mutex_, overwrite_mutex_,
                   apushes, acalls, nona>>

\* WaitPush under push_mutex_: prev = pending_count_.fetch_add(1); lk.unlock();
\* if (prev == 0) not_empty_.notify_one(); return true
APushSlowCount(t) ==
    /\ apc[t] = "a_scount"
    /\ pending_count_' = pending_count_ + 1
    /\ push_mutex_' = ""
    /\ apc' \in IF pending_count_ = 0
                  THEN ANotEmptyNotifyOne([apc EXCEPT ![t] = "idle"])
                  ELSE {[apc EXCEPT ![t] = "idle"]}
    /\ AReturned(t, TRUE, NoElem)
    /\ UNCHANGED <<queue_, pop_mutex_, overwrite_mutex_, apushes, acalls, nona>>

\* OverwritePush: if (Closed()) return false; try_push_hold() on the fast path
AOverwriteTry(t) ==
    /\ apc[t] = "o_try"
    /\ IF close_
         THEN /\ apc' = [apc EXCEPT ![t] = "idle"]
              /\ AReturned(t, FALSE, NoElem)
              /\ UNCHANGED queue_
         ELSE IF Len(queue_) < capacity_
         THEN /\ queue_' = Append(queue_, aitem[t])
              /\ AGoto(t, "o_count")
         ELSE /\ AGoto(t, "o_lock")
              /\ UNCHANGED queue_
    /\ UNCHANGED <<pending_count_, push_mutex_, pop_mutex_, overwrite_mutex_,
                   apushes, acalls, nona>>

\* OverwritePush, fast path: pending_count_.fetch_add(1);
\* not_empty_.notify_one(); return true
AOverwriteCount(t) ==
    /\ apc[t] = "o_count"
    /\ pending_count_' = pending_count_ + 1
    /\ apc' \in ANotEmptyNotifyOne([apc EXCEPT ![t] = "idle"])
    /\ AReturned(t, TRUE, NoElem)
    /\ UNCHANGED <<queue_, push_mutex_, pop_mutex_, overwrite_mutex_,
                   apushes, acalls, nona>>

\* OverwritePush: std::unique_lock lk(overwrite_mutex_)
AOverwriteLock(t) ==
    /\ apc[t] = "o_lock"
    /\ overwrite_mutex_ = ""
    /\ overwrite_mutex_' = t
    /\ AGoto(t, "o_pop")
    /\ UNCHANGED <<queue_, pending_count_, push_mutex_, pop_mutex_,
                   apushes, acalls, nona>>

\* OverwritePush under the lock: if (Closed()) return false; TryPopConsume
\* takes the oldest element into tmp; on an empty ring return false
AOverwritePop(t) ==
    /\ apc[t] = "o_pop"
    /\ IF close_ \/ queue_ = <<>>
         THEN /\ overwrite_mutex_' = ""
              /\ apc' = [apc EXCEPT ![t] = "idle"]
              /\ AReturned(t, FALSE, NoElem)
              /\ UNCHANGED queue_
         ELSE /\ queue_' = Tail(queue_)
              /\ aover' = [aover EXCEPT ![t] = Head(queue_)]
              /\ apc' = [apc EXCEPT ![t] = "o_dec"]
              /\ UNCHANGED <<overwrite_mutex_, aop, aitem, ares>>
    /\ UNCHANGED <<pending_count_, push_mutex_, pop_mutex_, apushes, acalls, nona>>

\* OverwritePush: pending_count_.fetch_sub(1); *overwritten = std::move(*tmp)
AOverwriteDec(t) ==
    /\ apc[t] = "o_dec"
    /\ pending_count_' = pending_count_ - 1
    /\ AGoto(t, "o_push")
    /\ UNCHANGED <<queue_, push_mutex_, pop_mutex_, overwrite_mutex_,
                   apushes, acalls, nona>>

\* OverwritePush: ok = try_push_hold()
AOverwritePush(t) ==
    /\ apc[t] = "o_push"
    /\ IF Len(queue_) < capacity_
         THEN /\ queue_' = Append(queue_, aitem[t])
              /\ AGoto(t, "o_inc")
         ELSE /\ AGoto(t, "o_fail")
              /\ UNCHANGED queue_
    /\ UNCHANGED <<pending_count_, push_mutex_, pop_mutex_, overwrite_mutex_,
                   apushes, acalls, nona>>

\* OverwritePush: if (ok) pending_count_.fetch_add(1)
AOverwriteInc(t) ==
    /\ apc[t] = "o_inc"
    /\ pending_count_' = pending_count_ + 1
    /\ AGoto(t, "o_done")
    /\ UNCHANGED <<queue_, push_mutex_, pop_mutex_, overwrite_mutex_,
                   apushes, acalls, nona>>

\* OverwritePush: lk.unlock(); not_empty_.notify_one(); return ok
AOverwriteUnlock(t) ==
    /\ apc[t] \in {"o_done", "o_fail"}
    /\ overwrite_mutex_' = ""
    /\ apc' \in ANotEmptyNotifyOne([apc EXCEPT ![t] = "idle"])
    /\ AReturned(t, apc[t] = "o_done", aover[t])
    /\ UNCHANGED <<queue_, pending_count_, push_mutex_, pop_mutex_,
                   apushes, acalls, nona>>

\* TryPop, WaitPop or Clear is called
APopCall(t, ops) ==
    /\ t \in AConsumers
    /\ apc[t] = "idle"
    /\ acalls < MaxAdapterCalls
    /\ \E op \in ops :
         /\ aop' = [aop EXCEPT ![t] = op]
         /\ apc' = [apc EXCEPT ![t] = IF op = "Clear" THEN "c_pop" ELSE "w_try"]
    /\ acalls' = acalls + 1
    /\ UNCHANGED <<queue_, pending_count_, push_mutex_, pop_mutex_, overwrite_mutex_,
                   aitem, aover, ares, apushes, nona>>

\* TryPop, WaitPop: the lock-free dequeue; on an empty ring TryPop returns
\* false and WaitPop goes on to lock pop_mutex_
APopTry(t) ==
    /\ apc[t] = "w_try"
    /\ IF queue_ # <<>>
         THEN /\ queue_' = Tail(queue_)
              /\ aitem' = [aitem EXCEPT ![t] = Head(queue_)]
              /\ apc' = [apc EXCEPT ![t] = "w_dec"]
              /\ UNCHANGED <<aop, aover, ares>>
         ELSE IF aop[t] = "WaitPop"
         THEN /\ AGoto(t, "w_lock")
              /\ UNCHANGED queue_
         ELSE /\ apc' = [apc EXCEPT ![t] = "idle"]
              /\ AReturned(t, FALSE, NoElem)
              /\ UNCHANGED queue_
    /\ UNCHANGED <<pending_count_, push_mutex_, pop_mutex_, overwrite_mutex_,
                   apushes, acalls, nona>>

\* TryPop: prev = pending_count_.fetch_sub(1); if (prev == Capacity())
\* not_full_.notify_one(). WaitPop: pending_count_.fetch_sub(1);
\* not_full_.notify_one(). Both return true
APopDec(t) ==
    /\ apc[t] = "w_dec"
    /\ pending_count_' = pending_count_ - 1
    /\ apc' \in IF aop[t] = "WaitPop" \/ pending_count_ = capacity_
                  THEN ANotFullNotifyOne([apc EXCEPT ![t] = "idle"])
                  ELSE {[apc EXCEPT ![t] = "idle"]}
    /\ AReturned(t, TRUE, NoElem)
    /\ UNCHANGED <<queue_, push_mutex_, pop_mutex_, overwrite_mutex_,
                   apushes, acalls, nona>>

\* WaitPop: std::unique_lock lk(pop_mutex_), also on the way out of wait
APopLock(t) ==
    /\ apc[t] = "w_lock"
    /\ pop_mutex_ = ""
    /\ pop_mutex_' = t
    /\ AGoto(t, "w_stry")
    /\ UNCHANGED <<queue_, pending_count_, push_mutex_, overwrite_mutex_,
                   apushes, acalls, nona>>

\* WaitPop under pop_mutex_: while (!queue_.TryPop(out)) { if (Closed())
\* return false; ...
APopSlowTry(t) ==
    /\ apc[t] = "w_stry"
    /\ IF queue_ # <<>>
         THEN /\ queue_' = Tail(queue_)
              /\ aitem' = [aitem EXCEPT ![t] = Head(queue_)]
              /\ apc' = [apc EXCEPT ![t] = "w_sdec"]
              /\ UNCHANGED <<pop_mutex_, aop, aover, ares>>
         ELSE IF close_
         THEN /\ pop_mutex_' = ""
              /\ apc' = [apc EXCEPT ![t] = "idle"]
              /\ AReturned(t, FALSE, NoElem)
              /\ UNCHANGED queue_
         ELSE /\ AGoto(t, "w_enter")
              /\ UNCHANGED <<queue_, pop_mutex_>>
    /\ UNCHANGED <<pending_count_, push_mutex_, overwrite_mutex_, apushes, acalls, nona>>

\* WaitPop: not_empty_.wait(lk) releases pop_mutex_ and blocks
APopWait(t) ==
    /\ apc[t] = "w_enter"
    /\ pop_mutex_' = ""
    /\ AGoto(t, "w_waiting")
    /\ UNCHANGED <<queue_, pending_count_, push_mutex_, overwrite_mutex_,
                   apushes, acalls, nona>>

\* WaitPop under pop_mutex_: pending_count_.fetch_sub(1); lk.unlock();
\* not_full_.notify_one(); return true
APopSlowDec(t) ==
    /\ apc[t] = "w_sdec"
    /\ pending_count_' = pending_count_ - 1
    /\ pop_mutex_' = ""
    /\ apc' \in ANotFullNotifyOne([apc EXCEPT ![t] = "idle"])
    /\ AReturned(t, TRUE, NoElem)
    /\ UNCHANGED <<queue_, push_mutex_, overwrite_mutex_, apushes, acalls, nona>>

\* Clear: while (queue_.TryPop(tmp)) {}
AClearPop(t) ==
    /\ apc[t] = "c_pop"
    /\ IF queue_ # <<>>
         THEN /\ queue_' = Tail(queue_)
              /\ AGoto(t, "c_pop")
         ELSE /\ AGoto(t, "c_store")
              /\ UNCHANGED queue_
    /\ UNCHANGED <<pending_count_, push_mutex_, pop_mutex_, overwrite_mutex_,
                   apushes, acalls, nona>>

\* Clear: pending_count_.store(0); not_full_.notify_all()
AClearStore(t) ==
    /\ apc[t] = "c_store"
    /\ pending_count_' = 0
    /\ apc' = ANotFullNotifyAll([apc EXCEPT ![t] = "idle"])
    /\ AReturned(t, TRUE, NoElem)
    /\ UNCHANGED <<queue_, push_mutex_, pop_mutex_, overwrite_mutex_,
                   apushes, acalls, nona>>

\* a step inside a TryPush, WaitPush, TryPop or WaitPop that has begun
AWaitRun(t) ==
    \/ APushTry(t) \/ APushCount(t) \/ APushLock(t) \/ APushSlowTry(t)
    \/ APushWait(t) \/ APushSlowCount(t)
    \/ APopTry(t) \/ APopDec(t) \/ APopLock(t) \/ APopSlowTry(t)
    \/ APopWait(t) \/ APopSlowDec(t)

\* a step inside a call that has begun
AdapterRun(t) ==
    \/ AWaitRun(t)
    \/ AOverwriteTry(t) \/ AOverwriteCount(t) \/ AOverwriteLock(t)
    \/ AOverwritePop(t) \/ AOverwriteDec(t) \/ AOverwritePush(t)
    \/ AOverwriteInc(t) \/ AOverwriteUnlock(t)
    \/ AClearPop(t) \/ AClearStore(t)

ANext ==
    \E t \in AThreads :
        \/ APushCall(t, {"TryPush", "WaitPush", "OverwritePush"})
        \/ APopCall(t, {"TryPop", "WaitPop", "Clear"})
        \/ AdapterRun(t)

\* producers that push and consumers that pop, nothing else
AWaitNext ==
    \E t \in AThreads :
        \/ APushCall(t, {"TryPush", "WaitPush"})
        \/ APopCall(t, {"TryPop", "WaitPop"})
        \/ AWaitRun(t)

(***************************************************************************)
(* The load controller of the ThreadPool: LoadBalancerLoop, the worker     *)
(* slots it creates and retires, and a submitter that loads the queue. The *)
(* pool is started and not stopped or paused. Here the adapter's           *)
(* operations are single steps that keep pending_count_ equal to the       *)
(* ring's length, and WaitPop and WaitPush block until they can proceed.   *)
(* A user task in the queue is a positive number, the ExitTask directed at *)
(* slot w is -w. A wake-up of the controller during the cooldown changes   *)
(* nothing and is left out.                                                *)
(***************************************************************************)
\* core_threads_ of the configuration
CoreThreads == 1
\* the threads max_threads_ allows beyond core_threads_
ExtraThreads == 1
MaxThreads == CoreThreads + ExtraThreads
\* debounce_hits_, pending_hi_ and pending_low_ of the configuration
DebounceHits == 2
PendingHi == 2
PendingLow == 0
\* user tasks the submitter hands over in all
MaxLoadTasks == 3
\* the worker slots there can ever be
LSlots == 1..(MaxThreads + 1)
NoSlot == 0

ExitTask(w) == 0 - w
IsExitTask(t) == t < 0
ExitSlot(t) == 0 - t

LInit ==
    /\ current_threads_ = 0
    /\ active_threads_ = 0
    /\ workers_ = <<>>
    /\ should_exit = [w \in LSlots |-> FALSE]
    /\ idle = [w \in LSlots |-> FALSE]
    /\ lpc = [w \in LSlots |-> "none"]
    /\ ltask = [w \in LSlots |-> NoTask]
    /\ bpc = "none"
    /\ up_hits = 0
    /\ down_hits = 0
    /\ target_workers = NoSlot
    /\ lsamples = <<>>
    /\ lacted = "none"
    /\ lloaded = 0
    /\ lexit_cancelled = 0

\* the pool's variables that the steps of this part never touch
PNotBalancer == <<close_, push_mutex_, pop_mutex_, overwrite_mutex_, overwrite_cnt_,
                  soverwritten, submit_ing_, active_tasks_, total_failed_, spc, skind,
                  stasks, spushed, swaited, sres, wpc, wtask, cpc, cmode, copt,
                  expired, tstatus, taccepted, ntasks>>
nonl == <<qvars, tvars, mvars, cvars, svars, uvars, vvars, kvars, gvars, avars,
          PNotBalancer>>

\* the slots not in use, of which CreateWorkerUnlocked takes the first
FreeSlots == {w \in LSlots : lpc[w] = "none"}
FirstFree == CHOOSE w \in FreeSlots : \A v \in FreeSlots : w <= v

\* lpc, idle, workers_ and current_threads_ after CreateWorkerUnlocked has run
\* n times: WorkerCounterHelper's constructor marks the slot idle
RECURSIVE Created(_, _)
Created(st, n) ==
    IF n = 0 \/ {w \in LSlots : st.pc[w] = "none"} = {} THEN st
    ELSE LET free == {w \in LSlots : st.pc[w] = "none"}
             w == CHOOSE x \in free : \A v \in free : x <= v
         IN  Created([pc |-> [st.pc EXCEPT ![w] = "w_pop"],
                      idle |-> [st.idle EXCEPT ![w] = TRUE],
                      workers |-> Append(st.workers, w),
                      current |-> st.current + 1], n - 1)

CreateWorkerUnlocked(n) ==
    LET st == Created([pc |-> lpc, idle |-> idle, workers |-> workers_,
                       current |-> current_threads_], n)
    IN  /\ lpc' = st.pc
        /\ idle' = st.idle
        /\ workers_' = st.workers
        /\ current_threads_' = st.current

\* Start(): CREATED -> RUNNING, core_threads_ workers, the controller's thread
LStart ==
    /\ state_ = "CREATED"
    /\ state_' = "RUNNING"
    /\ CreateWorkerUnlocked(CoreThreads)
    /\ bpc' = "wait"
    /\ UNCHANGED <<policy_, queue_, pending_count_, total_submitted_, total_completed_,
                   total_cancelled_, total_rejected_, active_threads_, should_exit,
                   ltask, up_hits, down_hits, target_workers, lsamples, lacted,
                   lloaded, lexit_cancelled, nonl>>

\* Post(f) on the running pool, by the policy: WaitPush waits for room,
\* TryPush fails on a full ring, OverwritePush displaces the oldest element,
\* which Post cancels and counts with RecordTaskCancel
LPost ==
    /\ state_ = "RUNNING"
    /\ lloaded < MaxLoadTasks
    /\ policy_ = "Block" => Len(queue_) < capacity_
    /\ lloaded' = lloaded + 1
    /\ IF Len(queue_) < capacity_
         THEN /\ queue_' = Append(queue_, lloaded + 1)
              /\ pending_count_' = pending_count_ + 1
              /\ total_submitted_' = total_submitted_ + 1
              /\ UNCHANGED <<total_cancelled_, total_rejected_, lexit_cancelled>>
         ELSE IF policy_ = "Discard"
         THEN /\ total_rejected_' = total_rejected_ + 1
              /\ UNCHANGED <<queue_, pending_count_, total_submitted_,
                             total_cancelled_, lexit_cancelled>>
         ELSE /\ queue_' = Append(Tail(queue_), lloaded + 1)
              /\ total_cancelled_' = total_cancelled_ + 1
              /\ total_submitted_' = total_submitted_ + 1
              /\ lexit_cancelled' =
                   lexit_cancelled + (IF IsExitTask(Head(queue_)) THEN 1 ELSE 0)
              /\ UNCHANGED <<pending_count_, total_rejected_>>
    /\ UNCHANGED <<state_, policy_, total_completed_, current_threads_,
                   active_threads_, workers_, should_exit, idle, lpc, ltask, bpc,
                   up_hits, down_hits, target_workers, lsamples, lacted, nonl>>

\* WorkerLoop: WaitPop returns a task. The ExitTask of this slot ends the
\* loop; another slot's ExitTask is to be put back; a user task is run after
\* counter.TaskOn()
LWorkerPop(w) ==
    /\ lpc[w] = "w_pop"
    /\ queue_ # <<>>
    /\ queue_' = Tail(queue_)
    /\ pending_count_' = pending_count_ - 1
    /\ LET task == Head(queue_) IN
       IF IsExitTask(task) /\ ExitSlot(task) = w
         THEN /\ should_exit' = [should_exit EXCEPT ![w] = FALSE]
              /\ lpc' = [lpc EXCEPT ![w] = "w_exit"]
              /\ UNCHANGED <<ltask, idle, active_threads_>>
         ELSE IF IsExitTask(task)
         THEN /\ ltask' = [ltask EXCEPT ![w] = task]
              /\ lpc' = [lpc EXCEPT ![w] = "w_requeue"]
              /\ UNCHANGED <<should_exit, idle, active_threads_>>
         ELSE /\ ltask' = [ltask EXCEPT ![w] = task]
              /\ idle' = [idle EXCEPT ![w] = FALSE]
              /\ active_threads_' = active_threads_ + 1
              /\ lpc' = [lpc EXCEPT ![w] = "w_exec"]
              /\ UNCHANGED should_exit
    /\ UNCHANGED <<state_, policy_, total_submitted_, total_completed_,
                   total_cancelled_, total_rejected_, current_threads_, workers_, bpc,
                   up_hits, down_hits, target_workers, lsamples, lacted, lloaded,
                   lexit_cancelled, nonl>>

\* WorkerLoop: queue_.WaitPush(std::move(task)) puts another slot's ExitTask back
LWorkerRequeue(w) ==
    /\ lpc[w] = "w_requeue"
    /\ Len(queue_) < capacity_
    /\ queue_' = Append(queue_, ltask[w])
    /\ pending_count_' = pending_count_ + 1
    /\ ltask' = [ltask EXCEPT ![w] = NoTask]
    /\ lpc' = [lpc EXCEPT ![w] = "w_pop"]
    /\ UNCHANGED <<state_, policy_, total_submitted_, total_completed_,
                   total_cancelled_, total_rejected_, current_threads_,
                   active_threads_, workers_, should_exit, idle, bpc, up_hits,
                   down_hits, target_workers, lsamples, lacted, lloaded,
                   lexit_cancelled, nonl>>

\* WorkerLoop: task->Execute() and counter.TaskOff()
LWorkerExecute(w) ==
    /\ lpc[w] = "w_exec"
    /\ total_completed_' = total_completed_ + 1
    /\ active_threads_' = active_threads_ - 1
    /\ idle' = [idle EXCEPT ![w] = TRUE]
    /\ ltask' = [ltask EXCEPT ![w] = NoTask]
    /\ lpc' = [lpc EXCEPT ![w] = "w_pop"]
    /\ UNCHANGED <<state_, policy_, queue_, pending_count_, total_submitted_,
                   total_cancelled_, total_rejected_, current_threads_, workers_,
                   should_exit, bpc, up_hits, down_hits, target_workers, lsamples,
                   lacted, lloaded, lexit_cancelled, nonl>>

\* WorkerLoop left: ~WorkerCounterHelper decrements current_threads_ and the
\* thread ends
LWorkerExit(w) ==
    /\ lpc[w] = "w_exit"
    /\ current_threads_' = current_threads_ - 1
    /\ lpc' = [lpc EXCEPT ![w] = "done"]
    /\ UNCHANGED <<state_, policy_, queue_, pending_count_, total_submitted_,
                   total_completed_, total_cancelled_, total_rejected_,
                   active_threads_, workers_, should_exit, idle, ltask, bpc, up_hits,
                   down_hits, target_workers, lsamples, lacted, lloaded,
                   lexit_cancelled, nonl>>

\* the two triggers of a sample: busy_ratio is active / current, 0 with no
\* thread, scale_up_threshold_ is 0.75 and scale_down_threshold_ 0.25
ToGrow == pending_count_ >= PendingHi
            \/ (current_threads_ # 0 /\ 4 * active_threads_ >= 3 * current_threads_)
ToShrink == pending_count_ <= PendingLow
              /\ (current_threads_ = 0 \/ 4 * active_threads_ <= current_threads_)

\* the last DebounceHits samples, latest last
Sampled(x) ==
    LET s == Append(lsamples, x)
    IN  IF Len(s) > DebounceHits THEN Tail(s) ELSE s

\* ScheduleShrinkUnlocked(1): the first slot of workers_ that is idle and not
\* yet marked, NoSlot if there is none
RECURSIVE FirstIdle(_)
FirstIdle(ws) ==
    IF ws = <<>> THEN NoSlot
    ELSE IF idle[Head(ws)] /\ ~should_exit[Head(ws)] THEN Head(ws)
    ELSE FirstIdle(Tail(ws))

\* the scale-up without its test of max_threads_
ScaleUpNoLimit == CreateWorkerUnlocked(1)

\* the scale-up of LoadBalancerLoop, under workers_mu_
ScaleUp ==
    IF current_threads_ < MaxThreads
      THEN CreateWorkerUnlocked(1)
      ELSE UNCHANGED <<lpc, idle, workers_, current_threads_>>

\* LoadBalancerLoop: one sample outside the cooldown, up to the scale-up it
\* makes or the worker it marks for a scale-down
LSample ==
    /\ bpc = "wait"
    /\ IF ToGrow
         THEN /\ lsamples' = Sampled("grow")
              /\ IF up_hits + 1 >= DebounceHits
                   THEN /\ up_hits' = 0
                        /\ down_hits' = 0
                        /\ lacted' = "up"
                        /\ ScaleUp
                   ELSE /\ up_hits' = up_hits + 1
                        /\ lacted' = "none"
                        /\ UNCHANGED <<down_hits, lpc, idle, workers_, current_threads_>>
              /\ UNCHANGED <<bpc, target_workers, should_exit>>
         ELSE IF ToShrink
         THEN /\ lsamples' = Sampled("shrink")
              /\ IF down_hits + 1 >= DebounceHits
                   THEN /\ up_hits' = 0
                        /\ down_hits' = 0
                        /\ lacted' = "down"
                        /\ LET t == IF current_threads_ > CoreThreads
                                      THEN FirstIdle(workers_) ELSE NoSlot
                           IN  /\ target_workers' = t
                               /\ should_exit' = [w \in LSlots |->
                                                    (w = t) \/ should_exit[w]]
                               /\ bpc' = IF t = NoSlot THEN "wait" ELSE "enqueue"
                   ELSE /\ down_hits' = down_hits + 1
                        /\ lacted' = "none"
                        /\ UNCHANGED <<up_hits, bpc, target_workers, should_exit>>
              /\ UNCHANGED <<lpc, idle, workers_, current_threads_>>
         ELSE /\ lsamples' = Sampled("none")
              /\ up_hits' = 0
              /\ down_hits' = 0
              /\ lacted' = "none"
              /\ UNCHANGED <<bpc, target_workers, should_exit, lpc, idle, workers_,
                             current_threads_>>
    /\ UNCHANGED <<state_, policy_, queue_, pending_count_, total_submitted_,
                   total_completed_, total_cancelled_, total_rejected_,
                   active_threads_, ltask, lloaded, lexit_cancelled, nonl>>

\* EnqueueExitSignals: queue_.WaitPush of the ExitTask directed at the target
LEnqueueExit ==
    /\ bpc = "enqueue"
    /\ Len(queue_) < capacity_
    /\ queue_' = Append(queue_, ExitTask(target_workers))
    /\ pending_count_' = pending_count_ + 1
    /\ bpc' = "retire"
    /\ UNCHANGED <<state_, policy_, total_submitted_, total_completed_,
                   total_cancelled_, total_rejected_, current_threads_,
                   active_threads_, workers_, should_exit, idle, lpc, ltask, up_hits,
                   down_hits, target_workers, lsamples, lacted, lloaded,
                   lexit_cancelled, nonl>>

\* RetireWorkerUnlocked: the slot leaves workers_ and thread.join() returns
\* once the target's thread has ended
LRetire ==
    /\ bpc = "retire"
    /\ lpc[target_workers] = "done"
    /\ workers_' = SelectSeq(workers_, LAMBDA w : w # target_workers)
    /\ lpc' = [lpc EXCEPT ![target_workers] = "none"]
    /\ idle' = [idle EXCEPT ![target_workers] = FALSE]
    /\ target_workers' = NoSlot
    /\ bpc' = "wait"
    /\ UNCHANGED <<state_, policy_, queue_, pending_count_, total_submitted_,
                   total_completed_, total_cancelled_, total_rejected_,
                   current_threads_, active_threads_, should_exit, ltask, up_hits,
                   down_hits, lsamples, lacted, lloaded, lexit_cancelled, nonl>>

LWorkerStep(w) ==
    \/ LWorkerPop(w) \/ LWorkerRequeue(w) \/ LWorkerExecute(w) \/ LWorkerExit(w)

LNext ==
    \/ LStart
    \/ LPost
    \/ \E w \in LSlots : LWorkerStep(w)
    \/ LSample
    \/ LEnqueueExit
    \/ LRetire

\* the later subsystems while another one runs
EIdle == SInit /\ UInit /\ VIdle /\ KInit /\ GIdle /\ AInit /\ LInit

InitCache == CInit /\ EIdle /\ QInit /\ TIdle /\ MIdle /\ PIdle
SpecCache == InitCache /\ [][CNext]_vars

InitSession == SInit /\ UInit /\ VIdle /\ KInit /\ GIdle /\ AInit /\ LInit /\ CInit /\ QInit /\ TIdle /\ MIdle /\ PIdle
SpecSession == InitSession /\ [][SNext]_vars

InitUser == UInit /\ SInit /\ VIdle /\ KInit /\ GIdle /\ AInit /\ LInit /\ CInit /\ QInit /\ TIdle /\ MIdle /\ PIdle
SpecUser == InitUser /\ [][UNext]_vars

InitService == VInit /\ SInit /\ UInit /\ KInit /\ GIdle /\ AInit /\ LInit /\ CInit /\ QInit /\ TIdle /\ MIdle /\ PIdle
SpecService == InitService /\ [][VNext]_vars

InitRegistry == GInit /\ SInit /\ UInit /\ VIdle /\ KInit /\ AInit /\ LInit /\ CInit /\ QInit /\ TIdle /\ MIdle /\ PIdle
SpecRegistry == InitRegistry /\ [][GNext]_vars

InitAdapter == EIdle /\ CInit /\ QInit /\ TIdle /\ MIdle /\ PIdle
SpecAdapter == InitAdapter /\ [][ANext]_vars
SpecWait == InitAdapter /\ [][AWaitNext]_vars
\* a thread inside an adapter call goes on running
FairSpecWait == SpecWait /\ \A t \in AThreads : WF_vars(AWaitRun(t))

InitBalancer ==
    /\ PConstructed /\ policy_ \in {"Block", "Discard", "Overwrite"}
    /\ QInit /\ TIdle /\ MIdle /\ CIdle /\ EIdle
SpecBalancer == InitBalancer /\ [][LNext]_vars
\* the controller and every worker slot's thread go on running; a worker
\* blocked in WaitPop gets its turn at the queue
FairSpecBalancer ==
    /\ SpecBalancer
    /\ WF_vars(LSample \/ LEnqueueExit \/ LRetire)
    /\ \A w \in LSlots : SF_vars(LWorkerStep(w))

InitConnPool == EIdle /\ CInit /\ QInit /\ TIdle /\ MIdle /\ PIdle
SpecConnPool == InitConnPool /\ [][KNext]_vars

InitQueue == QInit /\ TIdle /\ MIdle /\ PIdle /\ CIdle /\ EIdle
SpecQueue == InitQueue /\ [][QNext]_vars

InitTask == TInit /\ QInit /\ MIdle /\ PIdle /\ CIdle /\ EIdle
SpecTask == InitTask /\ [][TNext]_vars

InitMeeting == MInit /\ QInit /\ TIdle /\ PIdle /\ CIdle /\ EIdle
SpecMeeting == InitMeeting /\ [][MNext]_vars

InitPool == PInit /\ QInit /\ TIdle /\ MIdle /\ CIdle /\ EIdle
SpecPool == InitPool /\ [][PNext]_vars

SpecShutDown == InitPool /\ [][SDNext]_vars

InitOverwrite ==
    PConstructed /\ policy_ = "Overwrite" /\ QInit /\ TIdle /\ MIdle /\ CIdle /\ EIdle
SpecOverwrite == InitOverwrite /\ [][ONext]_vars

\* every submitting thread and every worker thread that can take a step takes one
FairSpecOverwrite ==
    /\ SpecOverwrite
    /\ \A s \in Submitters : WF_vars(OverwriteSubmitStep(s))
    /\ \A w \in Workers : WF_vars(WorkerRunStep(w))

\* every thread that can take a step is scheduled in the end
FairSpecPool ==
    /\ SpecPool
    /\ WF_vars(ControlStep)
    /\ \A s \in Submitters : WF_vars(SubmitterStep(s))
    /\ \A w \in Workers : WF_vars(WorkerStep(w))

(***************************************************************************)
(* Properties of the task object.                                          *)
(***************************************************************************)
TQuiescent == \A c \in TaskCallers : tpc[c] = "idle"

\* C5: the closure is invoked at most once, a cancellation takes effect at most
\* once, the two exclude each other, and a SimpleTask (the task Post builds)
\* that completed successfully had its closure invoked exactly once.
C5_ExecuteCancelExclusive ==
    /\ f_runs <= 1
    /\ cancel_effects <= 1
    /\ ~(f_runs >= 1 /\ cancel_effects >= 1)
    /\ (task_kind = "Simple" /\ TQuiescent /\ done_ /\ Success) => f_runs = 1

(***************************************************************************)
(* Properties of the ring queue.                                           *)
(***************************************************************************)
PoppedSet == {popped[i] : i \in 1..Len(popped)}
Outstanding == pushedOk \ PoppedSet
InCells == {cell_storage[i] : i \in 0..(capacity_ - 1)} \ {NoElem}
InHand == {qitem[t] : t \in {c \in QConsumers : qpc[c] = "c_release"}}
QQuiescent == \A t \in QThreads : qpc[t] = "idle"

C7_FailedPushLeavesQueueUsable ==
    (pushFailed > 0 /\ QQuiescent) =>
        /\ Outstanding # {} =>
              cell_seq[CellOf(consumer_pos_)] = consumer_pos_ + 1
        /\ Cardinality(Outstanding) < capacity_ =>
              cell_seq[CellOf(producer_pos_)] = producer_pos_

(***************************************************************************)
(* Properties of the meeting manager.                                      *)
(***************************************************************************)
Stored(m) == meetings_[m].present
Ended(m) == Stored(m) /\ meetings_[m].state = "Ended"
Full(m) == Stored(m) /\ Len(meetings_[m].participants) >= config_.max_participants

\* caller c takes the first step of its call op on meeting m, the step that
\* holds GetMeeting and the checks on the copy
MFirstStep(c, op, m) ==
    /\ mpc[c] = op
    /\ mcmd[c].meeting_id = m
    /\ mpc'[c] # op

\* C8: the stored participant list of a meeting never holds more than
\* max_participants entries, and a JoinMeeting of a valid user outside a meeting
\* that is not Ended and whose list is full returns Unavailable at once and adds
\* nobody.
C8_RosterWithinCapacity ==
    /\ [](\A m \in MeetingIds :
            Stored(m) => Len(meetings_[m].participants) <= config_.max_participants)
    /\ [][\A m \in MeetingIds, c \in MCallers :
            (/\ MFirstStep(c, "join", m)
             /\ Full(m) /\ ~Ended(m)
             /\ mcmd[c].user # 0
             /\ ~SeqContains(meetings_[m].participants, mcmd[c].user))
            => (/\ mpc'[c] = "idle"
                /\ mresult' = "Unavailable"
                /\ meetings_' = meetings_)]_vars

\* C9: a stored state that is Ended stays Ended in every step of JoinMeeting,
\* LeaveMeeting and EndMeeting.
C9_EndedIsFinal ==
    [][\A m \in MeetingIds : Ended(m) => meetings_'[m].state = "Ended"]_vars

\* C10: no step changes the participants, state or updated_at of a meeting that
\* is Ended, and a JoinMeeting, LeaveMeeting or EndMeeting issued on an Ended
\* meeting returns a failure from its first step.
C10_EndedMeetingImmutable ==
    [][\A m \in MeetingIds : Ended(m) =>
          /\ meetings_'[m].participants = meetings_[m].participants
          /\ meetings_'[m].state = meetings_[m].state
          /\ meetings_'[m].updated_at = meetings_[m].updated_at
          /\ \A c \in MCallers, op \in {"join", "leave", "end"} :
                MFirstStep(c, op, m) => (mpc'[c] = "idle" /\ mresult' # "OK")]_vars

\* C11: in every reachable state, a stored meeting whose state is not Ended has
\* its organizer in its stored participant list.
C11_OrganizerIsParticipant ==
    \A m \in MeetingIds :
        (Stored(m) /\ ~Ended(m)) =>
            SeqContains(meetings_[m].participants, meetings_[m].organizer_id)

(***************************************************************************)
(* Properties of the worker pool.                                          *)
(***************************************************************************)
\* the step in which Stop(mode), called on a started pool, returns
StopReturns(mode) == cpc = "c_join" /\ cpc' = "done" /\ cmode = mode

Executed(t) == tstatus[t] \in {"completed", "failed"}

\* C1: when Stop(Graceful) returns, whatever Submit, Post and PostBatch calls
\* ran beside it, Pending() is 0, ActiveTasks() is 0 and total_submitted equals
\* total_completed + total_failed + total_cancelled.
C1_GracefulStopDrains ==
    [][StopReturns("Graceful") =>
          /\ pending_count_' = 0
          /\ active_tasks_' = 0
          /\ total_submitted_' = total_completed_' + total_failed_' + total_cancelled_']_vars

\* C2: when Stop(Graceful) returns, every task a Submit, Post or PostBatch call
\* has accepted has been executed, none has been cancelled, the queue holds no
\* task and is closed, and the state is STOPPED.
C2_GracefulStopRunsAccepted ==
    [][StopReturns("Graceful") =>
          /\ \A t \in Tasks : taccepted'[t] => Executed(t)'
          /\ \A t \in Tasks : tstatus'[t] # "cancelled"
          /\ queue_' = <<>>
          /\ close_' = TRUE
          /\ state_' = "STOPPED"]_vars

\* C3: with tasks that terminate and threads that are scheduled fairly, a
\* Stop(Graceful) called when the pool is RUNNING or PAUSED returns in the end,
\* with the state STOPPED.
C3_GracefulStopReturns ==
    (cpc = "c_submit") ~> (cpc = "done" /\ state_ = "STOPPED")

\* C4: when Stop(Force) returns, every accepted task has been executed or
\* cancelled, and the queue holds no task.
C4_ForceStopSettlesAccepted ==
    [][StopReturns("Force") =>
          /\ \A t \in Tasks : taccepted'[t] => (Executed(t)' \/ tstatus'[t] = "cancelled")
          /\ queue_' = <<>>]_vars

\* C12: every change of state_ is one of CREATED -> RUNNING, RUNNING <-> PAUSED,
\* RUNNING or PAUSED -> SHUTTING_DOWN, SHUTTING_DOWN -> STOPPED, RUNNING or
\* PAUSED -> FORCE_STOPPING, FORCE_STOPPING -> STOPPED; a Start, Pause, Resume
\* or Stop request made in any other state leaves state_ as it is.
C12_StateEdges ==
    [][state_' # state_ =>
          <<state_, state_'>> \in
              {<<"CREATED", "RUNNING">>, <<"RUNNING", "PAUSED">>, <<"PAUSED", "RUNNING">>,
               <<"RUNNING", "SHUTTING_DOWN">>, <<"PAUSED", "SHUTTING_DOWN">>,
               <<"SHUTTING_DOWN", "STOPPED">>,
               <<"RUNNING", "FORCE_STOPPING">>, <<"PAUSED", "FORCE_STOPPING">>,
               <<"FORCE_STOPPING", "STOPPED">>}]_vars

\* C13: a ShutDown(Timeout, d) returns with the state STOPPED, and when its
\* deadline passed while the pool was not yet STOPPED it has called Stop(Force)
\* before it returns.
C13_TimeoutEscalates ==
    [][(cpc = "done" /\ cpc' = "returned" /\ copt = "Timeout") =>
          /\ state_ = "STOPPED"
          /\ expired => cmode = "Force"]_vars

\* a Submit or Post call of s reads state_ and leaves its loop on the state
SStateCheck(s) == spc[s] = "s_state" /\ spc'[s] # "s_state"

\* C14: a Submit or Post call that has waited while the pool was PAUSED and then
\* reads SHUTTING_DOWN goes on to enqueue its task; a Submit, Post or PostBatch
\* call that has not waited and reads SHUTTING_DOWN, FORCE_STOPPING, STOPPED or
\* CREATED is rejected and its tasks never enter the queue.
C14_SubmissionDuringShutdown ==
    /\ [][\A s \in Submitters :
            (SStateCheck(s) /\ swaited[s] /\ state_ = "SHUTTING_DOWN")
            => spc'[s] = "q_closed"]_vars
    /\ [][\A s \in Submitters :
            (/\ SStateCheck(s) /\ ~swaited[s]
             /\ state_ \in {"SHUTTING_DOWN", "FORCE_STOPPING", "STOPPED", "CREATED"})
            => tstatus'[stasks[s][1]] = "rejected"]_vars
    /\ [][\A s \in Submitters, t \in Tasks :
            (/\ spc[s] = "idle" /\ tstatus[t] = "none" /\ tstatus'[t] # "none"
             /\ state_ \in {"SHUTTING_DOWN", "FORCE_STOPPING", "STOPPED", "CREATED"})
            => (spc'[s] = "s_state" \/ tstatus'[t] = "rejected")]_vars
    /\ [][\A t \in Tasks : tstatus[t] = "rejected" => tstatus'[t] = "rejected"]_vars

\* three Submit calls on the running pool have returned and no worker has
\* taken a task yet: the tasks were submitted faster than the workers drain
Burst ==
    /\ ntasks = 3
    /\ \A s \in Submitters : spc[s] = "idle"
    /\ \A t \in 1..3 : tstatus[t] \in {"queued", "cancelled"}

\* C15: capacity 2, policy Overwrite; when T1, T2 and T3 have been submitted
\* before any worker took a task, exactly one of T1 and T2 is cancelled, it is
\* counted once in total_cancelled_ and once in overwrite_cnt_, T3 is in the
\* queue, and T3 is executed in the end.
C15_OverwriteBurst ==
    /\ [](Burst =>
            /\ (tstatus[1] = "cancelled") # (tstatus[2] = "cancelled")
            /\ total_cancelled_ = 1
            /\ overwrite_cnt_ = 1
            /\ tstatus[3] = "queued")
    /\ (Burst ~> Executed(3))

\* C16: the element OverwritePush takes out of the ring is the one it hands back
\* through overwritten, and after an OverwritePush of x that displaced an
\* element and returned true, the next successful pop (the ring is still full,
\* so nothing was popped in between) yields x.
C16_OverwriteThenPop ==
    /\ [][\A s \in Submitters :
            (spc[s] = "o_pop" /\ spc'[s] = "o_dec")
            => (soverwritten'[s] = Head(queue_) /\ queue_' = Tail(queue_))]_vars
    /\ [][\A s \in Submitters :
            (/\ spc[s] = "o_ret" /\ sres[s] /\ soverwritten[s] # NoTask
             /\ Len(queue_) = capacity_
             /\ queue_' = Tail(queue_))
            => Head(queue_) = stasks[s][1]]_vars

\* C17: once Close() has been called, every thread blocked in the wait of
\* WaitPush or WaitPop is woken and returns, and none blocks there afterwards:
\* from some point on no thread is waiting on not_empty_ or not_full_.
C17_CloseWakesWaiters ==
    close_ ~> [](NotEmptyWaiters = {} /\ NotFullWaiters = {})

\* C18: whenever no push and no pop is in progress, ApproxSize() is the number
\* of pushes that returned true minus the number of pops that returned true,
\* and it lies between 0 and Capacity(); pushes that failed change nothing.
C18_ApproxSizeAtQuiescence ==
    QQuiescent =>
        /\ ApproxSize = Cardinality(pushedOk) - Len(popped)
        /\ 0 <= ApproxSize
        /\ ApproxSize <= capacity_

\* caller c's call stands at pc with a well-formed command on a stored meeting
\* and takes its step
MStepAt(c, pc) ==
    /\ mpc[c] = pc
    /\ mpc'[c] # pc
    /\ mcmd[c].meeting_id # ""
    /\ mcmd[c].user # 0
    /\ meetings_[mcmd[c].meeting_id].present

\* C24: an EndMeeting asked by a user other than the organizer returns
\* Unauthenticated and leaves the meeting as it is, in whichever state the
\* meeting is.
C24_EndByNonOrganizer ==
    [][\A c \in MCallers :
         (MStepAt(c, "end")
            /\ mcmd[c].user # meetings_[mcmd[c].meeting_id].organizer_id)
           => (mresult' = "Unauthenticated" /\ meetings_' = meetings_)]_vars

\* C25: a LeaveMeeting by a user who is not a participant fails with NotFound
\* and changes nothing; one by a participant goes on to the removal, whatever
\* the size of the roster, and the removal takes out exactly that participant.
C25_LeaveIffParticipant ==
    [][\A c \in MCallers :
         /\ MStepAt(c, "leave") =>
              IF SeqContains(meetings_[mcmd[c].meeting_id].participants, mcmd[c].user)
                THEN mpc'[c] = "leave_remove" /\ meetings_' = meetings_
                ELSE mresult' = "NotFound" /\ meetings_' = meetings_
         /\ (MStepAt(c, "leave_remove")
               /\ SeqContains(meetings_[mcmd[c].meeting_id].participants, mcmd[c].user))
              => /\ mpc'[c] \in {"leave_list", "leave_end"}
                 /\ meetings_'[mcmd[c].meeting_id].participants =
                      SeqRemove(meetings_[mcmd[c].meeting_id].participants,
                                mcmd[c].user)]_vars

\* C26: no two stored meetings share a meeting_code (their meeting_ids differ
\* as keys of the repository's map): a CreateMeeting whose generated code is
\* the code of a stored meeting stores nothing.
C26_UniqueIdAndCode ==
    \A m1, m2 \in MeetingIds :
        (m1 # m2 /\ meetings_[m1].present /\ meetings_[m2].present)
            => meetings_[m1].meeting_code # meetings_[m2].meeting_code

(***************************************************************************)
(* Properties of the cached repositories.                                  *)
(***************************************************************************)
RQuiescent == \A c \in RepoCallers : rpc[c] = "idle"

\* the fields of a MeetingData or UserData, without the history field
Observable(data) ==
    IF data = NoRecord THEN NoRecord
    ELSE [f \in (DOMAIN data) \ {"ver"} |-> data[f]]

\* a value read answers the write w: it is no older than w, or it shows w's effect
Reflects(val, w) ==
    \/ val.ver >= w.ver
    \/ CASE w.op = "UpdateMeetingState" -> val.state = w.st /\ val.updated_at = w.at
         [] w.op = "AddParticipant" -> SeqContains(val.participants, w.pid)
         [] w.op = "RemoveParticipant" -> ~SeqContains(val.participants, w.pid)
         [] w.op = "UpdateLastLogin" -> val.last_login = w.at

\* C19: whenever no repository call is in progress, the payload under the
\* meeting's key, if there is one, decodes to the primary repository's
\* record, so GetMeeting returns the same value with the key or without it.
C19_EvictionUnobservable ==
    (RQuiescent /\ redis_meeting # NoRecord) =>
        Observable(MeetingFromPayload(redis_meeting)) = Observable(db_meeting)

\* C20: once a caller's UpdateMeetingState, AddParticipant, RemoveParticipant
\* or UpdateLastLogin has returned OK, the value that caller's next successful
\* read of the entity returns reflects the write, whatever the other callers do
\* in between.
C20_ReadYourWrites ==
    \A c \in RepoCallers :
        (rpc[c] = "idle" /\ rres[c].ok /\ rres[c].after # NoWrite) =>
            Reflects(rres[c].val, rres[c].after)

(***************************************************************************)
(* Properties of the cached session repository.                            *)
(***************************************************************************)
\* C21: once a DeleteSession of the token has returned OK, no key for the
\* token exists in the cache and every ValidateSession that begins afterwards
\* fails, also when a ValidateSession was in progress during the deletion.
C21_DeletedOnLogout ==
    /\ slife = "deleted" => redis_session = NoRecord
    /\ \A c \in RepoCallers :
         (rpc[c] = "idle" /\ rres[c].op = "ValidateSession" /\ rres[c].late) =>
             ~rres[c].ok

\* C22: a session ValidateSession returns OK had expires_at greater than the
\* clock when the call began: a session whose expires_at is less than or equal
\* to now is not returned.
C22_ValidatedNotExpired ==
    \A c \in RepoCallers :
        (rpc[c] = "idle" /\ rres[c].op = "ValidateSession" /\ rres[c].ok) =>
            rres[c].val.expires_at > rres[c].start

(***************************************************************************)
(* Properties of the in-memory user repository.                            *)
(***************************************************************************)
\* C23: of the CreateUser calls made with one user_name, at most one returns
\* OK; every other returns AlreadyExists and leaves the stored user as it was,
\* and the stored user is the one the successful call gave.
C23_UniqueUserName ==
    /\ \A r1, r2 \in ureg :
         (r1.code = "OK" /\ r2.code = "OK" /\ r1.data.user_name = r2.data.user_name)
             => r1 = r2
    /\ \A r \in ureg :
         /\ r.code \in {"OK", "AlreadyExists"}
         /\ r.code = "AlreadyExists" => r.after = r.before /\ r.before # NoRecord
         /\ r.code = "OK" =>
              /\ users_by_user_name_[r.data.user_name].user_id = r.data.user_id
              /\ users_by_user_name_[r.data.user_name].email = r.data.email

\* two registrations of one name by different callers were in progress
\* together; one returned OK and the other AlreadyExists
C23_Witness ==
    \E r1, r2 \in ureg :
        /\ r1.data.user_name = r2.data.user_name
        /\ r1.data.email # r2.data.email
        /\ r1.code = "OK"
        /\ r2.code = "AlreadyExists"
        /\ r1.conc \/ r2.conc

(***************************************************************************)
(* Properties of the meeting service.                                      *)
(***************************************************************************)
\* C27: a meeting RPC whose token has no valid session fails with
\* Unauthenticated and hands no command to the manager, so no meeting changes;
\* an RPC that goes on acts for the user its validated session is bound to.
C27_TokenResolvesToSession ==
    [][mcalls' # mcalls =>
         /\ svc_sessions[svc_last'.token] = 0 =>
              /\ svc_last'.status = "Unauthenticated"
              /\ mpc' = mpc
              /\ meetings_' = meetings_
         /\ \A c \in MCallers :
              mpc'[c] # mpc[c] => mcmd'[c].user = svc_sessions[svc_last'.token]]_vars

(***************************************************************************)
(* Properties of the connection pool.                                      *)
(***************************************************************************)
\* the connections client threads hold: leased, or on their way back in Return
HeldConns == {kconn[t] : t \in {u \in PoolClients : kconn[u] # 0}}
IdleConns == {connections_[i] : i \in 1..Len(connections_)}
Creating == {t \in PoolClients : kpc[t] = "creating"}

\* C28: the connections held, idle and being created are at most pool_size
\* and as many as total_connections_ says; no connection is idle while it is
\* held, none is held by two threads and none is twice in the idle queue.
C28_FixedCapacity ==
    /\ total_connections_ =
         Cardinality({t \in PoolClients : kconn[t] # 0}) + Len(connections_)
           + Cardinality(Creating)
    /\ total_connections_ <= PoolSize
    /\ HeldConns \cap IdleConns = {}
    /\ \A t, u \in PoolClients : (t # u /\ kconn[t] # 0) => kconn[t] # kconn[u]
    /\ Cardinality(IdleConns) = Len(connections_)

\* the pool is full with one connection leased and one idle while a third
\* thread waits, after a broken connection was discarded and replaced
C28_Witness ==
    /\ total_connections_ = PoolSize
    /\ knext > PoolSize + 1
    /\ \E t, u \in PoolClients :
         /\ kpc[t] = "waiting"
         /\ kpc[u] = "leased"
         /\ connections_ # <<>>

(***************************************************************************)
(* Properties of the server registry.                                      *)
(***************************************************************************)
\* C29: in a standalone process (ZooKeeper not configured or unreachable, so
\* the registry is disabled) that has registered SelfNode, List("default")
\* returns exactly the list holding SelfNode.
C29_StandaloneListsSelf ==
    [][(gop'.op = "List" /\ gop' # gop /\ gop'.region = "default"
          /\ ~enabled_ /\ SelfNode \in gregd)
         => gop'.result = <<SelfNode>>]_vars

\* C30: List(region(n)) called right after Unregister(n) returned does not
\* contain n.
C30_UnregisteredNotListed ==
    [][(gop'.op = "List" /\ gop.op = "Unregister"
          /\ gop'.region = gop.node.region)
         => \A i \in 1..Len(gop'.result) : ~SameNode(gop'.result[i], gop.node)]_vars

(***************************************************************************)
(* Properties of the BlockingQueueAdapter used by several threads.         *)
(***************************************************************************)
\* C31: no lost wake-up on the pop side: no consumer stays blocked in the
\* wait of WaitPop for ever while the ring holds an element.
C31_PopSideWakeUp ==
    \A c \in AConsumers : []<>~(apc[c] = "w_waiting" /\ queue_ # <<>>)

\* C32: no lost wake-up on the push side: no producer stays blocked in the
\* wait of WaitPush for ever while the ring has a free slot.
C32_PushSideWakeUp ==
    \A p \in AProducers : []<>~(apc[p] = "a_waiting" /\ Len(queue_) < capacity_)

\* C35: pending_count_ never goes below zero, and whenever no adapter call is
\* in progress Size() is the number of elements the ring holds.
C35_PendingInLockstep ==
    /\ pending_count_ >= 0
    /\ (\A t \in AThreads : apc[t] = "idle") => pending_count_ = Len(queue_)

\* C36: an OverwritePush that handed a displaced element back to its caller
\* has enqueued the new item and returned true.
C36_OverwriteAllOrNothing ==
    \A p \in AProducers :
        (ares[p].op = "OverwritePush" /\ ares[p].overwritten # NoElem) => ares[p].ok

(***************************************************************************)
(* Further properties of the thread pool.                                  *)
(***************************************************************************)
\* C33: while state_ is PAUSED no submitter puts a task in the queue and no
\* worker runs a task's Execute.
C33_PausedPoolIsStill ==
    [][state_ = "PAUSED" =>
         /\ Len(queue_') <= Len(queue_)
         /\ \A w \in Workers : ~(wpc[w] = "w_exec" /\ wpc'[w] = "w_off")]_vars

\* C34: submit_ing_ counts the submission calls in progress, whichever of
\* Submit, Post and PostBatch they are, and once the calls have returned every
\* task handed to one of them is counted once, in total_submitted_ or in
\* total_rejected_.
C34_SubmissionAccounting ==
    /\ submit_ing_ = Cardinality({s \in Submitters : spc[s] # "idle"})
    /\ (\A s \in Submitters : spc[s] = "idle") =>
           total_submitted_ + total_rejected_ = ntasks

\* the worker threads that are running
LiveWorkers == Cardinality({w \in LSlots : lpc[w] \notin {"none", "done"}})

\* C37: a scale-down retires exactly the worker it targets, under every
\* queue-full policy: no ExitTask is ever cancelled by a submission and
\* counted with the cancelled user tasks, a worker leaves its loop on an
\* ExitTask only if it is the target, and the controller's join of the target
\* returns
C37_ExitTaskRetiresTarget ==
    /\ [](lexit_cancelled = 0)
    /\ [][\A w \in LSlots :
            (lpc[w] = "w_pop" /\ lpc'[w] = "w_exit") => target_workers = w]_vars
    /\ (bpc = "retire") ~> (bpc = "wait")

C39_DebounceConsecutive ==
    /\ (lsamples # <<>> /\ lsamples[Len(lsamples)] # "grow") => up_hits = 0
    /\ (lsamples # <<>> /\ lsamples[Len(lsamples)] # "shrink") => down_hits = 0
    /\ lacted = "up" =>
         Len(lsamples) = DebounceHits /\ \A i \in 1..DebounceHits : lsamples[i] = "grow"
    /\ lacted = "down" =>
         Len(lsamples) = DebounceHits /\ \A i \in 1..DebounceHits : lsamples[i] = "shrink"

\* C40: an Acquire that waits because the pool is at capacity gives up with
\* Unavailable only while the pool is still at capacity: once a connection
\* has come back or a broken one has been discarded and total_connections_
\* decremented, the waiter does not time out
C40_WaiterGetsFreedCapacity ==
    [][\A t \in PoolClients :
         (kpc[t] = "waiting" /\ kpc'[t] = "idle") =>
             (connections_ = <<>> /\ total_connections_ >= PoolSize)]_vars

====
